---------------------------- MODULE Spec2Model ----------------------------
(***************************************************************************)
(* A model of cfgparse/iniparser.py (with cfgparse/config.py): the line    *)
(* grammar, the line container, section / inifile and inifile.read.        *)
(*                                                                         *)
(* Text is modelled as a sequence of one-character strings, so that the    *)
(* regular expressions, rstrip/strip, ljust and join are computed the way  *)
(* the code computes them.  Containers carry an id: Python compares them   *)
(* by identity (list.remove), and the indices refer to them by reference.  *)
(***************************************************************************)
EXTENDS Integers, Sequences, FiniteSets, TLC

\* ------------------------------------------------------------------------
\* Python string primitives
\* ------------------------------------------------------------------------

\* str.isspace / the regular expression class \s
Whitespace == {" ", "\t", "\n", "\r", "\f"}

\* Python's None, and a local variable that was never bound
None == <<"None">>
Unbound == <<"Unbound">>

Max(a, b) == IF a > b THEN a ELSE b

\* number of leading characters of s that are in set cs
LeadingIn(s, cs) ==
    IF \A i \in 1..Len(s) : s[i] \in cs THEN Len(s)
    ELSE (CHOOSE i \in 1..Len(s) :
              s[i] \notin cs /\ \A j \in 1..(i-1) : s[j] \in cs) - 1

\* number of trailing characters of s that are in set cs
TrailingIn(s, cs) ==
    IF \A i \in 1..Len(s) : s[i] \in cs THEN Len(s)
    ELSE Len(s) - (CHOOSE i \in 1..Len(s) :
              s[i] \notin cs /\ \A j \in (i+1)..Len(s) : s[j] \in cs)

\* s[a:] with a 0-based
From(s, a) == SubSeq(s, a + 1, Len(s))

\* str.rstrip(), str.rstrip(chars), str.strip(), str.strip(chars)
rstrip_chars(s, cs) == SubSeq(s, 1, Len(s) - TrailingIn(s, cs))
lstrip_chars(s, cs) == From(s, LeadingIn(s, cs))
strip_chars(s, cs) == lstrip_chars(rstrip_chars(s, cs), cs)
rstrip(s) == rstrip_chars(s, Whitespace)
strip(s) == strip_chars(s, Whitespace)

\* str.find(c) for a set of characters: the 0-based index of the first
\* character of s that is in cs, or -1
find(s, cs) ==
    IF \A i \in 1..Len(s) : s[i] \notin cs THEN -1
    ELSE LeadingIn(s, {s[i] : i \in 1..Len(s)} \ cs)

Spaces(n) == [i \in 1..n |-> " "]

\* str.ljust(width)
ljust(s, width) == s \o Spaces(Max(0, width - Len(s)))

\* sep.join(parts)
RECURSIVE join(_, _)
join(sep, parts) ==
    IF Len(parts) = 0 THEN <<>>
    ELSE IF Len(parts) = 1 THEN parts[1]
    ELSE parts[1] \o sep \o join(sep, Tail(parts))

\* str.split('\n')
RECURSIVE split_nl(_)
split_nl(s) ==
    LET i == find(s, {"\n"})
    IN  IF i = -1 THEN <<s>>
        ELSE <<SubSeq(s, 1, i)>> \o split_nl(From(s, i + 1))

UpperCase == <<"A","B","C","D","E","F","G","H","I","J","K","L","M",
               "N","O","P","Q","R","S","T","U","V","W","X","Y","Z">>
LowerCase == <<"a","b","c","d","e","f","g","h","i","j","k","l","m",
               "n","o","p","q","r","s","t","u","v","w","x","y","z">>

\* str.lower
lower(s) ==
    [i \in 1..Len(s) |->
        IF \E k \in 1..26 : UpperCase[k] = s[i]
        THEN LowerCase[CHOOSE k \in 1..26 : UpperCase[k] = s[i]]
        ELSE s[i]]

\* ConfigParser.DEFAULTSECT
DEFAULTSECT == <<"D","E","F","A","U","L","T">>

\* ------------------------------------------------------------------------
\* Line records (line_type and its subclasses)
\* ------------------------------------------------------------------------

\* line_type.__init__: the original text is kept without its newline
line_type_init(line) == IF line = None THEN None ELSE strip_chars(line, {"\n"})

new_section_line(name, comment, comment_separator, comment_offset, line) ==
    [type |-> "section_line", line |-> line_type_init(line), name |-> name,
     comment |-> comment, comment_separator |-> comment_separator,
     comment_offset |-> comment_offset]

new_option_line(name, value, separator, comment, comment_separator, comment_offset, line) ==
    [type |-> "option_line", line |-> line_type_init(line), name |-> name,
     value |-> value, separator |-> separator, comment |-> comment,
     comment_separator |-> comment_separator,
     comment_offset |-> comment_offset]

new_comment_line(comment, separator, line) ==
    [type |-> "comment_line", line |-> line_type_init(line),
     comment |-> comment, separator |-> separator]

new_empty_line(line) ==
    [type |-> "empty_line", line |-> line_type_init(line)]

new_continuation_line(value, value_offset, line) ==
    [type |-> "continuation_line", line |-> line_type_init(line),
     value |-> value, value_offset |-> value_offset]

\* a parse that does not match returns None
NoMatch == [type |-> "None"]

\* section_line.regex / section_line.parse
section_line_parse(line) ==
    LET r == rstrip(line)
        close == find(r, {"]"})
        rest == From(r, close + 1)
        k == LeadingIn(rest, Whitespace)
    IN  IF Len(r) = 0 \/ r[1] # "[" \/ close < 2 THEN NoMatch
        ELSE IF k = Len(rest)
        THEN new_section_line(SubSeq(r, 2, close), None, None, -1, line)
        ELSE IF rest[k + 1] \in {";", "#"}
        THEN new_section_line(SubSeq(r, 2, close), From(rest, k + 1),
                              <<rest[k + 1]>>, close + 1 + k, line)
        ELSE NoMatch

\* option_line.parse that takes every first ';' for the start of a comment
option_line_parse_any_semicolon(line) ==
    LET r == rstrip(line)
        sep == find(r, {":", "="})
        after == From(r, sep + 1)
        k == LeadingIn(after, Whitespace)
        value == From(after, k)
        vstart == sep + 1 + k
        coff == find(value, {";"})
        before == IF coff = 0 THEN Len(value) ELSE coff
    IN  IF Len(r) = 0 \/ r[1] \in ({":", "=", "["} \cup Whitespace)
           \/ sep = -1
        THEN NoMatch
        ELSE IF coff # -1
        THEN new_option_line(rstrip(SubSeq(r, 1, sep)),
                             rstrip(SubSeq(value, 1, coff)), <<r[sep + 1]>>,
                             From(value, coff + 1), <<value[coff + 1]>>,
                             vstart + coff, line)
        ELSE new_option_line(rstrip(SubSeq(r, 1, sep)), value,
                             <<r[sep + 1]>>, None, None, -1, line)

\* option_line.regex / option_line.parse
option_line_parse(line) ==
    LET r == rstrip(line)
        sep == find(r, {":", "="})
        after == From(r, sep + 1)
        k == LeadingIn(after, Whitespace)
        value == From(after, k)
        vstart == sep + 1 + k
        coff == find(value, {";"})
        before == IF coff = 0 THEN Len(value) ELSE coff
    IN  IF Len(r) = 0 \/ r[1] \in ({":", "=", "["} \cup Whitespace)
           \/ sep = -1
        THEN NoMatch
        ELSE IF coff # -1 /\ value[before] \in Whitespace
        THEN new_option_line(rstrip(SubSeq(r, 1, sep)),
                             rstrip(SubSeq(value, 1, coff)), <<r[sep + 1]>>,
                             From(value, coff + 1), <<value[coff + 1]>>,
                             vstart + coff, line)
        ELSE new_option_line(rstrip(SubSeq(r, 1, sep)), value,
                             <<r[sep + 1]>>, None, None, -1, line)

\* comment_line.regex / comment_line.parse
comment_line_parse(line) ==
    LET r == rstrip(line)
    IN  IF Len(r) >= 1 /\ r[1] \in {";", "#"}
        THEN new_comment_line(From(r, 1), <<r[1]>>, line)
        ELSE IF Len(r) >= 3 /\ lower(SubSeq(r, 1, 3)) = <<"r", "e", "m">>
        THEN new_comment_line(From(r, 3), SubSeq(r, 1, 3), line)
        ELSE NoMatch

\* empty_line.parse
empty_line_parse(line) ==
    IF Len(strip(line)) # 0 THEN NoMatch ELSE new_empty_line(line)

\* continuation_line.regex / continuation_line.parse
continuation_line_parse(line) ==
    LET r == rstrip(line)
        k == LeadingIn(r, Whitespace)
    IN  IF k = 0 \/ k = Len(r) THEN NoMatch
        ELSE new_continuation_line(From(r, k), k, line)

\* the first result of a list of parse results that is a match
first_match(results) ==
    IF \A i \in 1..Len(results) : results[i] = NoMatch THEN NoMatch
    ELSE results[CHOOSE i \in 1..Len(results) :
                     /\ results[i] # NoMatch
                     /\ \A j \in 1..(i - 1) : results[j] = NoMatch]

\* inifile.line_types / inifile.parse: the first line type that matches
parse(line) ==
    first_match(<<empty_line_parse(line), comment_line_parse(line),
                  section_line_parse(line), option_line_parse(line),
                  continuation_line_parse(line)>>)

\* make_comment: the line becomes the text of a new '#' comment
make_comment(line) == new_comment_line(rstrip(line), <<"#">>, None)

\* to_string with the comment always one space behind the text
to_string_no_pad(x) ==
    CASE x.type = "section_line" ->
           LET out == <<"[">> \o x.name \o <<"]">>
           IN  IF x.comment # None
               THEN out \o <<" ">> \o x.comment_separator \o x.comment
               ELSE out
      [] x.type = "option_line" ->
           LET out == x.name \o <<" ">> \o x.separator \o <<" ">> \o x.value
           IN  IF x.comment # None
               THEN out \o <<" ">> \o x.comment_separator \o x.comment
               ELSE out
      [] x.type = "comment_line" -> x.separator \o x.comment
      [] x.type = "empty_line" -> <<>>
      [] x.type = "continuation_line" -> Spaces(x.value_offset) \o x.value

\* section_line.to_string, option_line.to_string, comment_line.to_string,
\* empty_line.to_string, continuation_line.to_string
to_string(x) ==
    CASE x.type = "section_line" ->
           LET out == <<"[">> \o x.name \o <<"]">>
           IN  IF x.comment # None
               THEN ljust(out \o <<" ">>, x.comment_offset)
                        \o x.comment_separator \o x.comment
               ELSE out
      [] x.type = "option_line" ->
           LET out == x.name \o <<" ">> \o x.separator \o <<" ">> \o x.value
           IN  IF x.comment # None
               THEN ljust(out \o <<" ">>, x.comment_offset)
                        \o x.comment_separator \o x.comment
               ELSE out
      [] x.type = "comment_line" -> x.separator \o x.comment
      [] x.type = "empty_line" -> <<>>
      [] x.type = "continuation_line" -> Spaces(x.value_offset) \o x.value

\* line_type.__str__: the original line of an unmodified object
line_str(x) == IF x.line # None THEN x.line ELSE to_string(x)

\* an assignment to the attribute value that leaves the original line
set_line_value_keep_line(x, v) == [x EXCEPT !.value = v]

\* line_type.__setattr__ on the attribute value of an existing line object
set_line_value(x, v) == [x EXCEPT !.line = None, !.value = v]

\* line_type.__setattr__ on the attribute name of an existing line object
set_line_name(x, n) == [x EXCEPT !.line = None, !.name = n]


\* ------------------------------------------------------------------------
\* line_container
\* ------------------------------------------------------------------------

\* line_container.__init__; the id stands for the object's identity
new_container(id, contents) ==
    [type |-> "line_container", id |-> id, contents |-> contents]

IsContainer(x) == x.type = "line_container"

\* every container below (and including) container c, parents first
RECURSIVE containers_of(_)
containers_of(c) ==
    LET sub[i \in 0..Len(c.contents)] ==
            IF i = 0 THEN <<>>
            ELSE sub[i - 1] \o (IF IsContainer(c.contents[i])
                                THEN containers_of(c.contents[i])
                                ELSE <<>>)
    IN  <<c>> \o sub[Len(c.contents)]

\* container c with the contents of its (sub)container id replaced
RECURSIVE replace_contents(_, _, _)
replace_contents(c, id, new) ==
    IF c.id = id THEN [c EXCEPT !.contents = new]
    ELSE [c EXCEPT !.contents =
            [i \in 1..Len(c.contents) |->
                IF IsContainer(c.contents[i])
                THEN replace_contents(c.contents[i], id, new)
                ELSE c.contents[i]]]

\* line_container.get_name
get_name(c) == c.contents[1].name

\* hasattr(x, 'name'): comment, empty and continuation lines have none; a
\* container has the name of its first line
RECURSIVE has_name(_)
has_name(x) ==
    IF IsContainer(x) THEN Len(x.contents) > 0 /\ has_name(x.contents[1])
    ELSE x.type \in {"section_line", "option_line"}

name_of(x) == IF IsContainer(x) THEN get_name(x) ELSE x.name

\* line_container.get_value
get_value(c) ==
    IF Len(c.contents) = 1 THEN c.contents[1].value
    ELSE join(<<"\n">>, [i \in 1..Len(c.contents) |-> c.contents[i].value])

\* set_value that keeps the lines of a longer old value
set_value_keep_lines(c, data) ==
    LET lines == split_nl(data)
        linediff == Len(lines) - Len(c.contents)
        resized == IF linediff > 0
                   THEN c.contents \o [i \in 1..linediff |->
                            new_continuation_line(<<>>, 8, None)]
                   ELSE c.contents
    IN  [c EXCEPT !.contents =
            [i \in 1..Len(resized) |->
                IF i <= Len(lines)
                THEN set_line_value(resized[i], lines[i])
                ELSE resized[i]]]

\* line_container.set_value: the lines after resizing to the lines of data
set_value(c, data) ==
    LET lines == split_nl(data)
        linediff == Len(lines) - Len(c.contents)
        resized == IF linediff > 0
                   THEN c.contents \o [i \in 1..linediff |->
                            new_continuation_line(<<>>, 8, None)]
                   ELSE IF linediff < 0
                   THEN SubSeq(c.contents, 1, Len(c.contents) + linediff)
                   ELSE c.contents
    IN  [c EXCEPT !.contents =
            [i \in 1..Len(resized) |-> set_line_value(resized[i], lines[i])]]

\* line_container.set_name
set_name(c, data) ==
    [c EXCEPT !.contents[1] = set_line_name(c.contents[1], data)]

\* line_container.__str__, as the list of physical lines it joins
RECURSIVE str_lines(_)
str_lines(c) ==
    LET sub[i \in 0..Len(c.contents)] ==
            IF i = 0 THEN <<>>
            ELSE sub[i - 1] \o (IF IsContainer(c.contents[i])
                                THEN str_lines(c.contents[i])
                                ELSE <<line_str(c.contents[i])>>)
    IN  sub[Len(c.contents)]

\* line_container.__str__
RECURSIVE container_str(_)
container_str(c) ==
    join(<<"\n">>, [i \in 1..Len(c.contents) |->
                      IF IsContainer(c.contents[i])
                      THEN container_str(c.contents[i])
                      ELSE line_str(c.contents[i])])

\* finditer over the contents as they stand, oldest first
finditer_oldest_first(c, key) ==
    SelectSeq(c.contents, LAMBDA x : has_name(x) /\ name_of(x) = key)

\* line_container.finditer: the children called key, newest first
finditer(c, key) ==
    LET rev == [i \in 1..Len(c.contents) |->
                    c.contents[Len(c.contents) + 1 - i]]
    IN  SelectSeq(rev, LAMBDA x : has_name(x) /\ name_of(x) = key)

\* line_container.find: the first of finditer, or KeyError
KeyError == [type |-> "KeyError"]
find_child(c, key) ==
    IF Len(finditer(c, key)) > 0 THEN finditer(c, key)[1] ELSE KeyError

\* ------------------------------------------------------------------------
\* dict
\* ------------------------------------------------------------------------

EmptyDict == [k \in {} |-> 0]
dict_set(d, k, v) == [x \in DOMAIN d \cup {k} |-> IF x = k THEN v ELSE d[x]]
dict_del(d, k) == [x \in DOMAIN d \ {k} |-> d[x]]


\* ------------------------------------------------------------------------
\* section and inifile objects
\* ------------------------------------------------------------------------

\* an optionxform / sectionxform callback: None or str.lower
xform(f, name) == IF f = "lower" THEN lower(name) ELSE name

\* section.__init__: lineobj refers to a container, options maps option
\* names to the containers of their option objects
new_section(lineobj) == [lineobj |-> lineobj, options |-> EmptyDict]

\* inifile.__init__ without a file object and with no defaults: data is
\* container 1, the DEFAULT section starts on a container (2) of its own
inifile_init(parse_exc, optionxform, sectionxform) ==
    [data |-> new_container(1, <<>>),
     detached |-> new_container(2, <<>>),
     sections |-> EmptyDict,
     defaults |-> new_section(2),
     nextid |-> 3,
     parse_exc |-> parse_exc,
     optionxform |-> optionxform,
     sectionxform |-> sectionxform]

\* every container object of the document
all_containers(c) == containers_of(c.data) \o containers_of(c.detached)

has_container(c, id) ==
    \E i \in 1..Len(all_containers(c)) : all_containers(c)[i].id = id

\* the container object with identity id
container(c, id) ==
    all_containers(c)[CHOOSE i \in 1..Len(all_containers(c)) :
                          all_containers(c)[i].id = id]

\* the document after the contents of container id were assigned
with_contents(c, id, new) ==
    [c EXCEPT !.data = replace_contents(c.data, id, new),
              !.detached = replace_contents(c.detached, id, new)]

\* line_container.add / line_container.extend on container id
container_add(c, id, x) ==
    with_contents(c, id, Append(container(c, id).contents, x))
container_extend(c, id, xs) ==
    with_contents(c, id, container(c, id).contents \o xs)

\* inifile.__str__
inifile_str(c) == container_str(c.data)

\* ------------------------------------------------------------------------
\* inifile.read
\* ------------------------------------------------------------------------

NoError == [type |-> "none", errors |-> <<>>]

\* the local variables of read() before its loop
read_init ==
    [cur_section |-> 0, cur_option |-> 0,
     cur_section_name |-> None, cur_option_name |-> None,
     pending_lines |-> <<>>, linecount |-> 0, exc |-> <<>>,
     line |-> Unbound]

\* read_option_line with the index keeping the first declaration of a name
read_option_line_keep_first(c, f, cur_option) ==
    [cfg |-> [container_extend(c, f.cur_section,
                               Append(f.pending_lines, cur_option))
                EXCEPT !.nextid = @ + 1,
                       !.defaults.options =
                           IF f.cur_section_name = DEFAULTSECT
                              /\ xform(c.optionxform, get_name(cur_option))
                                     \notin DOMAIN @
                           THEN dict_set(@, xform(c.optionxform,
                                                  get_name(cur_option)),
                                         cur_option.id)
                           ELSE @,
                       !.sections =
                           IF f.cur_section_name = DEFAULTSECT
                              \/ xform(c.optionxform, get_name(cur_option))
                                     \in DOMAIN @[f.cur_section_name].options
                           THEN @
                           ELSE [@ EXCEPT ![f.cur_section_name].options =
                                   dict_set(@, xform(c.optionxform,
                                                     get_name(cur_option)),
                                            cur_option.id)]],
     rd |-> [f EXCEPT !.pending_lines = <<>>,
                      !.cur_option = cur_option.id,
                      !.cur_option_name =
                          xform(c.optionxform, get_name(cur_option))],
     raised |-> NoError]

\* read(), the branch for an option line (lineobj) that was put into the
\* new container cur_option
read_option_line(c, f, cur_option) ==
    [cfg |-> [container_extend(c, f.cur_section,
                               Append(f.pending_lines, cur_option))
                EXCEPT !.nextid = @ + 1,
                       !.defaults.options =
                           IF f.cur_section_name = DEFAULTSECT
                           THEN dict_set(@, xform(c.optionxform,
                                                  get_name(cur_option)),
                                         cur_option.id)
                           ELSE @,
                       !.sections =
                           IF f.cur_section_name = DEFAULTSECT THEN @
                           ELSE [@ EXCEPT ![f.cur_section_name].options =
                                   dict_set(@, xform(c.optionxform,
                                                     get_name(cur_option)),
                                            cur_option.id)]],
     rd |-> [f EXCEPT !.pending_lines = <<>>,
                      !.cur_option = cur_option.id,
                      !.cur_option_name =
                          xform(c.optionxform, get_name(cur_option))],
     raised |-> NoError]

\* read_section_line with a new section object for every header
read_section_line_new_section(c, f, cur_section, cur_section_name) ==
    [cfg |-> [container_extend(c, c.data.id,
                               Append(f.pending_lines, cur_section))
                EXCEPT !.nextid = @ + 1,
                       !.defaults.lineobj =
                           IF get_name(cur_section) = DEFAULTSECT
                           THEN cur_section.id ELSE @,
                       !.sections =
                           IF get_name(cur_section) = DEFAULTSECT THEN @
                           ELSE dict_set(@, cur_section_name,
                                         new_section(cur_section.id))],
     rd |-> [f EXCEPT !.pending_lines = <<>>,
                      !.cur_section = cur_section.id,
                      !.cur_section_name = cur_section_name],
     raised |-> NoError]

\* read(), the branch for a section line (lineobj) that was put into the
\* new container cur_section and is indexed as cur_section_name
read_section_line(c, f, cur_section, cur_section_name) ==
    [cfg |-> [container_extend(c, c.data.id,
                               Append(f.pending_lines, cur_section))
                EXCEPT !.nextid = @ + 1,
                       !.defaults.lineobj =
                           IF get_name(cur_section) = DEFAULTSECT
                           THEN cur_section.id ELSE @,
                       !.sections =
                           IF get_name(cur_section) = DEFAULTSECT THEN @
                           ELSE IF cur_section_name \notin DOMAIN @
                           THEN dict_set(@, cur_section_name,
                                         new_section(cur_section.id))
                           ELSE [@ EXCEPT ![cur_section_name].lineobj =
                                   cur_section.id]],
     rd |-> [f EXCEPT !.pending_lines = <<>>,
                      !.cur_section = cur_section.id,
                      !.cur_section_name = cur_section_name],
     raised |-> NoError]

\* read_dispatch with a comment or blank line added at once to the block
\* of the current section
read_dispatch_unheld(c, f, lineobj) ==
    IF lineobj.type = "option_line"
    THEN read_option_line(c, f, new_container(c.nextid, <<lineobj>>))
    ELSE IF lineobj.type = "section_line"
    THEN read_section_line(c, f, new_container(c.nextid, <<lineobj>>),
                           IF lineobj.name = DEFAULTSECT THEN DEFAULTSECT
                           ELSE xform(c.sectionxform, lineobj.name))
    ELSE IF lineobj.type \in {"comment_line", "empty_line"}
    THEN [cfg |-> container_add(c, IF f.cur_section # 0
                                   THEN f.cur_section ELSE c.data.id,
                                lineobj),
          rd |-> f,
          raised |-> NoError]
    ELSE [cfg |-> c, rd |-> f, raised |-> NoError]

\* read(), the end of a pass of the loop: the branches on the type of
\* lineobj
read_dispatch(c, f, lineobj) ==
    IF lineobj.type = "option_line"
    THEN read_option_line(c, f, new_container(c.nextid, <<lineobj>>))
    ELSE IF lineobj.type = "section_line"
    THEN read_section_line(c, f, new_container(c.nextid, <<lineobj>>),
                           IF lineobj.name = DEFAULTSECT THEN DEFAULTSECT
                           ELSE xform(c.sectionxform, lineobj.name))
    ELSE IF lineobj.type \in {"comment_line", "empty_line"}
    THEN [cfg |-> c,
          rd |-> [f EXCEPT !.pending_lines = Append(@, lineobj)],
          raised |-> NoError]
    ELSE [cfg |-> c, rd |-> f, raised |-> NoError]

\* read_continuation without the error for a stray continuation line
read_continuation_unrecorded(c, f, line, lineobj) ==
    IF lineobj.type = "continuation_line"
    THEN IF f.cur_option # 0
         THEN read_dispatch(container_add(c, f.cur_option, lineobj), f,
                            lineobj)
         ELSE read_dispatch(c, f, make_comment(line))
    ELSE read_dispatch(c, [f EXCEPT !.cur_option = 0,
                                    !.cur_option_name = None], lineobj)

\* the continuation stage, were blank and comment lines to leave the
\* current option open
read_continuation_across(c, f, line, lineobj) ==
    IF lineobj.type = "continuation_line"
    THEN IF f.cur_option # 0
         THEN read_dispatch(container_add(c, f.cur_option, lineobj), f,
                            lineobj)
         ELSE read_dispatch(c,
                  [f EXCEPT !.exc = IF c.parse_exc
                                    THEN Append(@, <<f.linecount, line>>)
                                    ELSE @],
                  make_comment(line))
    ELSE IF lineobj.type \in {"comment_line", "empty_line"}
    THEN read_dispatch(c, f, lineobj)
    ELSE read_dispatch(c, [f EXCEPT !.cur_option = 0,
                                    !.cur_option_name = None], lineobj)

\* read(), the branch on a continuation line: it joins the current option,
\* or is an error and becomes a comment; any other line ends the option
read_continuation(c, f, line, lineobj) ==
    IF lineobj.type = "continuation_line"
    THEN IF f.cur_option # 0
         THEN read_dispatch(container_add(c, f.cur_option, lineobj), f,
                            lineobj)
         ELSE read_dispatch(c,
                  [f EXCEPT !.exc = IF c.parse_exc
                                    THEN Append(@, <<f.linecount, line>>)
                                    ELSE @],
                  make_comment(line))
    ELSE read_dispatch(c, [f EXCEPT !.cur_option = 0,
                                    !.cur_option_name = None], lineobj)

\* read(), the branch on a line that no line type matches: it is an error
\* and becomes a comment
read_unparsed(c, f, line, lineobj) ==
    IF lineobj = NoMatch
    THEN read_continuation(c,
             [f EXCEPT !.exc = IF c.parse_exc
                               THEN Append(@, <<f.linecount, line>>)
                               ELSE @],
             line, make_comment(line))
    ELSE read_continuation(c, f, line, lineobj)

\* read_missing with the line before the first section header recorded in
\* the ParsingError instead of raising MissingSectionHeaderError
read_missing_aggregated(c, f, line, lineobj) ==
    IF f.cur_section = 0
       /\ lineobj.type \notin {"comment_line", "empty_line", "section_line"}
    THEN read_unparsed(c, f, line, NoMatch)
    ELSE read_unparsed(c, f, line, lineobj)

\* read(), the branch on a line before the first section header
read_missing(c, f, line, lineobj) ==
    IF f.cur_section = 0
       /\ lineobj.type \notin {"comment_line", "empty_line", "section_line"}
    THEN IF c.parse_exc
         THEN [cfg |-> c, rd |-> f,
               raised |-> [type |-> "MissingSectionHeaderError",
                           errors |-> << <<f.linecount, line>> >>]]
         ELSE read_unparsed(c, f, line, make_comment(line))
    ELSE read_unparsed(c, f, line, lineobj)

\* read(), one pass of the loop over the lines of the file
read_line(c, f, line) ==
    read_missing(c, [f EXCEPT !.linecount = @ + 1, !.line = line], line,
                 parse(line))

\* read(), the statements after the loop, pending_lines being flushed
read_finish(c, f) ==
    IF f.line = Unbound
    THEN [cfg |-> c, rd |-> f,
          raised |-> [type |-> "UnboundLocalError", errors |-> <<>>]]
    ELSE [cfg |-> IF f.line[Len(f.line)] = "\n"
                  THEN container_add(c, c.data.id, new_empty_line(None))
                  ELSE c,
          rd |-> f,
          raised |-> IF Len(f.exc) > 0
                     THEN [type |-> "ParsingError", errors |-> f.exc]
                     ELSE NoError]

\* read(), the statements after the loop
read_end(c, f) ==
    read_finish(container_extend(c, c.data.id, f.pending_lines), f)

\* read() on a whole file, given as the list of its lines
RECURSIVE read_lines(_, _, _)
read_lines(c, f, lines) ==
    IF Len(lines) = 0 THEN read_end(c, f)
    ELSE LET r == read_line(c, f, Head(lines))
         IN  IF r.raised # NoError THEN r
             ELSE read_lines(r.cfg, r.rd, Tail(lines))

\* what iterating a file object yields for a text: its lines, each with
\* its newline
RECURSIVE file_lines(_)
file_lines(text) ==
    LET i == find(text, {"\n"})
    IN  IF Len(text) = 0 THEN <<>>
        ELSE IF i = -1 THEN <<text>>
        ELSE <<SubSeq(text, 1, i + 1)>> \o file_lines(From(text, i + 1))

\* inifile(fobj, parse_exc=...) on a text
inifile_read(text, parse_exc) ==
    read_lines(inifile_init(parse_exc, "lower", None), read_init,
               file_lines(text))

\* ------------------------------------------------------------------------
\* section / inifile as namespaces (cfgparse/config.py)
\* ------------------------------------------------------------------------

\* the outcome of a call: the document and the exception raised ("none")
Outcome(c, error) == [cfg |-> c, error |-> error]

\* section.get on the section indexed as sec: the container of the option
\* object that is returned, or 0 for KeyError
section_get(c, sec, name) ==
    IF xform(c.optionxform, name) \in DOMAIN c.sections[sec].options
    THEN c.sections[sec].options[xform(c.optionxform, name)]
    ELSE IF xform(c.optionxform, name) \in DOMAIN c.defaults.options
    THEN c.defaults.options[xform(c.optionxform, name)]
    ELSE 0

\* option.set
option_set(c, lineobj, data) ==
    with_contents(c, lineobj, set_value(container(c, lineobj), data).contents)

\* option.get
option_get(c, lineobj) == get_value(container(c, lineobj))

\* section.new_value on the section indexed as sec
section_new_value(c, sec, name, data) ==
    option_set(
        [container_add(c, c.sections[sec].lineobj,
                       new_container(c.nextid,
                           <<new_option_line(name, <<>>, <<"=">>, None,
                                             None, -1, None)>>))
            EXCEPT !.nextid = @ + 1,
                   !.sections[sec].options =
                       dict_set(@, xform(c.optionxform, name), c.nextid)],
        c.nextid, data)

\* namespace.__setattr__ on the section indexed as sec (name is not an
\* attribute of the section object itself)
section_setattr(c, sec, name, data) ==
    IF section_get(c, sec, name) # 0
    THEN Outcome(option_set(c, section_get(c, sec, name), data), "none")
    ELSE Outcome(section_new_value(c, sec, name, data), "none")

\* list.remove that takes the last element of the list
list_remove_last(contents, id) == SubSeq(contents, 1, Len(contents) - 1)

\* list.remove(x) for a container x: the first element that is x goes
list_remove(contents, id) ==
    LET at == CHOOSE i \in 1..Len(contents) :
                  /\ IsContainer(contents[i]) /\ contents[i].id = id
                  /\ \A j \in 1..(i - 1) :
                        ~(IsContainer(contents[j]) /\ contents[j].id = id)
    IN  SubSeq(contents, 1, at - 1) \o SubSeq(contents, at + 1, Len(contents))

in_list(contents, id) ==
    \E i \in 1..Len(contents) :
        IsContainer(contents[i]) /\ contents[i].id = id

\* section.delete on the section indexed as sec (namespace.__delattr__)
section_delete(c, sec, name) ==
    IF xform(c.optionxform, name) \notin DOMAIN c.sections[sec].options
    THEN Outcome(c, "KeyError")
    ELSE IF ~in_list(container(c, c.sections[sec].lineobj).contents,
                     c.sections[sec].options[xform(c.optionxform, name)])
    THEN Outcome(c, "ValueError")
    ELSE Outcome(
           [with_contents(c, c.sections[sec].lineobj,
                list_remove(container(c, c.sections[sec].lineobj).contents,
                    c.sections[sec].options[xform(c.optionxform, name)]))
              EXCEPT !.sections[sec].options =
                         dict_del(@, xform(c.optionxform, name))],
           "none")

\* inifile.delete (namespace.__delattr__ on the document)
inifile_delete(c, name) ==
    IF xform(c.sectionxform, name) \notin DOMAIN c.sections
    THEN Outcome(c, "KeyError")
    ELSE IF ~in_list(c.data.contents,
                     c.sections[xform(c.sectionxform, name)].lineobj)
    THEN Outcome(c, "ValueError")
    ELSE Outcome(
           [with_contents(c, c.data.id,
                list_remove(c.data.contents,
                    c.sections[xform(c.sectionxform, name)].lineobj))
              EXCEPT !.sections = dict_del(@, xform(c.sectionxform, name))],
           "none")

\* inifile.new_namespace
inifile_new_namespace(c, name) ==
    [container_extend(c, c.data.id,
         (IF Len(c.data.contents) > 0 THEN <<new_empty_line(None)>>
          ELSE <<>>)
         \o <<new_container(c.nextid,
                  <<new_section_line(name, None, None, -1, None)>>)>>)
       EXCEPT !.nextid = @ + 1,
              !.sections = dict_set(@, xform(c.sectionxform, name),
                                    new_section(c.nextid))]

\* inifile.get: whether the document has the section
inifile_has(c, name) == xform(c.sectionxform, name) \in DOMAIN c.sections

\* cfg.<sec>.<name> = data: namespace.__getattr__ on the document, then
\* namespace.__setattr__ on the section or unknown.__setattr__
assign_option(c, sec, name, data) ==
    IF inifile_has(c, sec)
    THEN section_setattr(c, xform(c.sectionxform, sec), name, data)
    ELSE section_setattr(inifile_new_namespace(c, sec),
                         xform(c.sectionxform, sec), name, data)

\* del cfg.<sec>.<name>: an unknown object has no attribute to delete
delete_option(c, sec, name) ==
    IF inifile_has(c, sec)
    THEN section_delete(c, xform(c.sectionxform, sec), name)
    ELSE Outcome(c, "AttributeError")

\* section.rename on the section indexed as sec: the name is set as an
\* attribute of the option object (284-292), which has no such property,
\* so no line changes; the index entry moves to the new key
section_rename(c, sec, oldname, newname) ==
    IF xform(c.optionxform, oldname) \notin DOMAIN c.sections[sec].options
    THEN Outcome(c, "KeyError")
    ELSE Outcome(
           [c EXCEPT !.sections[sec].options =
               dict_del(dict_set(@, xform(c.optionxform, newname),
                                 @[xform(c.optionxform, oldname)]),
                        xform(c.optionxform, oldname))],
           "none")

\* the attribute the rename methods assign to
NameAttr == <<"n", "a", "m", "e">>

\* the section index with the entry of oldkey moved to newkey
moved_section(sections, oldkey, newkey) ==
    dict_del(dict_set(sections, newkey, sections[oldkey]), oldkey)

\* inifile.rename: the name is set as an attribute of the section object,
\* a namespace, so namespace.__setattr__ makes it an option called name;
\* the index entry moves to the new key
inifile_rename(c, oldname, newname) ==
    IF xform(c.sectionxform, oldname) \notin DOMAIN c.sections
    THEN Outcome(c, "KeyError")
    ELSE Outcome(
           [section_setattr(c, xform(c.sectionxform, oldname), NameAttr,
                            newname).cfg
              EXCEPT !.sections =
                  moved_section(@, xform(c.sectionxform, oldname),
                                xform(c.sectionxform, newname))],
           "none")

\* cfg.<sec>.rename(oldname, newname): an unknown object has no method
rename_option(c, sec, oldname, newname) ==
    IF inifile_has(c, sec)
    THEN section_rename(c, xform(c.sectionxform, sec), oldname, newname)
    ELSE Outcome(c, "AttributeError")

\* the orders in which the keys of a dict may be iterated: each key once
iterkeys(d) ==
    {q \in [1..Cardinality(DOMAIN d) -> DOMAIN d] :
        \A i, j \in 1..Cardinality(DOMAIN d) : i # j => q[i] # q[j]}

\* section.iterkeys on the section indexed as sec: the sequences it may
\* yield
section_iterkeys(c, sec) ==
    {own \o dflt : own \in iterkeys(c.sections[sec].options),
                   dflt \in iterkeys(c.defaults.options)}

\* inifile.iterkeys: the sequences it may yield
inifile_iterkeys(c) == iterkeys(c.sections)

\* cfg.<sec>.<name>: the value, or Undefined for what is not there
Undefined == <<"unknown">>
read_option(c, sec, name) ==
    IF inifile_has(c, sec)
       /\ section_get(c, xform(c.sectionxform, sec), name) # 0
    THEN option_get(c, section_get(c, xform(c.sectionxform, sec), name))
    ELSE Undefined

\* ------------------------------------------------------------------------
\* RawConfigParser (iniparse/compat.py) on the document
\* ------------------------------------------------------------------------

\* INIConfig._getitem: whether the document has a section for the key
INIConfig_getitem(c, key) == inifile_has(c, key)

\* INIConfig._new_namespace: an empty line behind a document that has
\* lines, then the header of the new section, which is registered
INIConfig_new_namespace(c, name) == inifile_new_namespace(c, name)

\* ConfigNamespace.__contains__ / RawConfigParser.has_section
has_section(c, section) == INIConfig_getitem(c, section)

\* add_section without the test for the reserved name
add_section_any_name(c, section) ==
    IF has_section(c, section)
    THEN Outcome(c, "DuplicateSectionError")
    ELSE Outcome(INIConfig_new_namespace(c, section), "none")

\* RawConfigParser.add_section
add_section(c, section) ==
    IF lower(section) = <<"d", "e", "f", "a", "u", "l", "t">>
    THEN Outcome(c, "ValueError")
    ELSE IF has_section(c, section)
    THEN Outcome(c, "DuplicateSectionError")
    ELSE Outcome(INIConfig_new_namespace(c, section), "none")

\* the outcome of a call that returns a value
Result(c, error, result) == [cfg |-> c, error |-> error, result |-> result]

\* INISection._getitem: the container of the option a section shows for a
\* key, its own or that of DEFAULT, or 0 for KeyError
INISection_getitem(c, section, key) ==
    section_get(c, xform(c.sectionxform, section), key)

\* INISection.__delitem__: the option leaves the section
INISection_delitem(c, section, key) ==
    section_delete(c, xform(c.sectionxform, section), key)

\* ConfigNamespace.__contains__ on a section
contains(c, section, option) == INISection_getitem(c, section, option) # 0

\* RawConfigParser.get
RawConfigParser_get(c, section, option) ==
    IF ~has_section(c, section) THEN Result(c, "NoSectionError", None)
    ELSE IF contains(c, section, option)
    THEN Result(c, "none",
                option_get(c, INISection_getitem(c, section, option)))
    ELSE Result(c, "NoOptionError", None)

\* RawConfigParser.set
RawConfigParser_set(c, section, option, value) ==
    IF has_section(c, section)
    THEN Result(section_setattr(c, xform(c.sectionxform, section),
                                option, value).cfg, "none", None)
    ELSE Result(c, "NoSectionError", None)

\* RawConfigParser.options, for one order keys of the iteration
RawConfigParser_options(c, section, keys) ==
    IF has_section(c, section) THEN Result(c, "none", keys)
    ELSE Result(c, "NoSectionError", None)

\* RawConfigParser.has_option
RawConfigParser_has_option(c, section, option) ==
    IF has_section(c, section)
    THEN Result(c, "none", contains(c, section, option))
    ELSE Result(c, "NoSectionError", None)

\* RawConfigParser.items, for one order keys of the iteration
RawConfigParser_items(c, section, keys) ==
    IF has_section(c, section)
    THEN Result(c, "none",
                [i \in 1..Len(keys) |->
                    <<keys[i], RawConfigParser_get(c, section,
                                                   keys[i]).result>>])
    ELSE Result(c, "NoSectionError", None)

\* RawConfigParser.remove_option: an exception of the deletion leaves no
\* return value
RawConfigParser_remove_option(c, section, option) ==
    IF ~has_section(c, section) THEN Result(c, "NoSectionError", None)
    ELSE IF contains(c, section, option)
    THEN Result(INISection_delitem(c, section, option).cfg,
                INISection_delitem(c, section, option).error,
                IF INISection_delitem(c, section, option).error = "none"
                THEN 1 ELSE None)
    ELSE Result(c, "none", 0)

\* RawConfigParser.remove_section
RawConfigParser_remove_section(c, section) ==
    IF ~has_section(c, section) THEN Result(c, "none", FALSE)
    ELSE Result(inifile_delete(c, section).cfg,
                inifile_delete(c, section).error,
                IF inifile_delete(c, section).error = "none"
                THEN TRUE ELSE None)

\* ------------------------------------------------------------------------
\* Reading through the namespace interface (cfgparse/config.py)
\* ------------------------------------------------------------------------

\* unknown.__init__: the placeholder for a name that is not there
unknown(name) == [type |-> "unknown", name |-> name]

\* the section object the document has for a name
section_object(c, name) ==
    [type |-> "section", name |-> xform(c.sectionxform, name)]

\* namespace.__getattr__ on the document, were it to create what it does
\* not find
inifile_getattr_creating(c, name) ==
    IF inifile_has(c, name) THEN Result(c, "none", section_object(c, name))
    ELSE Result(inifile_new_namespace(c, name), "none",
                section_object(c, name))

\* namespace.__getattr__ on the document: cfg.<name>
inifile_getattr(c, name) ==
    IF inifile_has(c, name) THEN Result(c, "none", section_object(c, name))
    ELSE Result(c, "none", unknown(name))

\* namespace.__getattr__ on the section indexed as sec: the value of the
\* option, or a placeholder
section_getattr(c, sec, name) ==
    IF section_get(c, sec, name) # 0
    THEN Result(c, "none", option_get(c, section_get(c, sec, name)))
    ELSE Result(c, "none", unknown(name))

\* cfg.<sec>.<name>: a placeholder has the attributes name and namespace
\* only
getattr_option(c, sec, name) ==
    IF inifile_getattr(c, sec).result.type = "section"
    THEN section_getattr(inifile_getattr(c, sec).cfg,
                         inifile_getattr(c, sec).result.name, name)
    ELSE Result(inifile_getattr(c, sec).cfg, "AttributeError", None)

\* ------------------------------------------------------------------------
\* Interpolation (iniparse/compat.py). A value is a sequence of parts:
\* literal text, or a reference %(name)s
\* ------------------------------------------------------------------------

MAX_INTERPOLATION_DEPTH == 10

Lit(text) == [kind |-> "lit", text |-> text]
Ref(name) == [kind |-> "ref", text |-> name]

\* "%(" in value
has_reference(value) == \E i \in 1..Len(value) : value[i].kind = "ref"

\* the names that value refers to and that ConfigDict.__getitem__ raises
\* KeyError for
missing_keys(value, map) ==
    {value[i].text : i \in {j \in 1..Len(value) : value[j].kind = "ref"}}
        \ DOMAIN map

\* value % map: every reference is replaced by the raw value of its name
percent(value, map) ==
    LET sub[i \in 0..Len(value)] ==
            IF i = 0 THEN <<>>
            ELSE sub[i - 1] \o (IF value[i].kind = "ref"
                                THEN map[value[i].text]
                                ELSE <<value[i]>>)
    IN  sub[Len(value)]

InterpolationError(type) == [type |-> type, errors |-> <<>>]

\* the locals of ConfigParser._interpolate at its start
interpolate_init(rawval) ==
    [at |-> "loop", value |-> rawval, depth |-> MAX_INTERPOLATION_DEPTH]

\* one pass of the loop of _interpolate, were depth not counted down
interpolate_loop_no_countdown(f, map) ==
    IF f.depth = 0 THEN [rd |-> [f EXCEPT !.at = "after"], raised |-> NoError]
    ELSE IF ~has_reference(f.value)
    THEN [rd |-> [f EXCEPT !.at = "after"], raised |-> NoError]
    ELSE IF missing_keys(f.value, map) # {}
    THEN [rd |-> f,
          raised |-> InterpolationError("InterpolationMissingOptionError")]
    ELSE [rd |-> [f EXCEPT !.value = percent(f.value, map)],
          raised |-> NoError]

\* ConfigParser._interpolate: one pass of the loop
interpolate_loop(f, map) ==
    IF f.depth = 0 THEN [rd |-> [f EXCEPT !.at = "after"], raised |-> NoError]
    ELSE IF ~has_reference(f.value)
    THEN [rd |-> [f EXCEPT !.at = "after", !.depth = @ - 1],
          raised |-> NoError]
    ELSE IF missing_keys(f.value, map) # {}
    THEN [rd |-> [f EXCEPT !.depth = @ - 1],
          raised |-> InterpolationError("InterpolationMissingOptionError")]
    ELSE [rd |-> [f EXCEPT !.value = percent(f.value, map),
                           !.depth = @ - 1],
          raised |-> NoError]

\* ConfigParser._interpolate: behind the loop
interpolate_after(f) ==
    IF has_reference(f.value)
    THEN [rd |-> f, raised |-> InterpolationError("InterpolationDepthError")]
    ELSE [rd |-> [f EXCEPT !.at = "returned"], raised |-> NoError]

\* the locals of SafeConfigParser._interpolate at its start: the list L
\* and the call _interpolate_some(option, L, rawval, section, vars, 1)
interpolate_some_init(rawval) ==
    [at |-> "some", value |-> <<>>,
     stack |-> <<[rest |-> rawval, depth |-> 1]>>]

\* SafeConfigParser._interpolate_some: one pass of the loop of the
\* innermost call, a return from it, or a call one level deeper
interpolate_some(f, map) ==
    LET top == f.stack[Len(f.stack)]
        below == SubSeq(f.stack, 1, Len(f.stack) - 1)
        next == Append(below, [top EXCEPT !.rest = Tail(@)])
    IN  IF top.depth > MAX_INTERPOLATION_DEPTH
        THEN [rd |-> f,
              raised |-> InterpolationError("InterpolationDepthError")]
        ELSE IF top.rest = <<>>
        THEN [rd |-> [f EXCEPT !.stack = below,
                               !.at = IF below = <<>> THEN "returned"
                                      ELSE @],
              raised |-> NoError]
        ELSE IF Head(top.rest).kind = "lit"
        THEN [rd |-> [f EXCEPT !.stack = next,
                               !.value = Append(@, Head(top.rest))],
              raised |-> NoError]
        ELSE IF Head(top.rest).text \notin DOMAIN map
        THEN [rd |-> [f EXCEPT !.stack = next],
              raised |->
                  InterpolationError("InterpolationMissingOptionError")]
        ELSE IF has_reference(map[Head(top.rest).text])
        THEN [rd |-> [f EXCEPT !.stack =
                          Append(next, [rest |-> map[Head(top.rest).text],
                                        depth |-> top.depth + 1])],
              raised |-> NoError]
        ELSE [rd |-> [f EXCEPT !.stack = next,
                               !.value = @ \o map[Head(top.rest).text]],
              raised |-> NoError]

\* ------------------------------------------------------------------------
\* The state machine: a document is constructed, a file is read into it
\* and, when read() returned, the document is used through its namespace
\* interface
\* ------------------------------------------------------------------------

VARIABLES
    cfg,        \* the inifile object
    rd,         \* the local variables of read()
    fobj,       \* the lines the file object has yielded so far
    pc,         \* "read": in the loop of read(); "done": read() returned
                \* or raised
    raised,     \* the exception read() raised, or NoError
    calls,      \* the number of calls made on the document after read()
    last,       \* the last such call, and the exception it raised
    line_obj    \* a line object that was parsed from a line on its own
                \* (pc = "line"), or None

vars == <<cfg, rd, fobj, pc, raised, calls, last, line_obj>>

\* most lines a file holds, in a run that reads one
MaxLines == 4

\* most lines a file holds, and most calls made on the document, in a run
\* that goes on to use the document
MaxEditLines == 4
MaxCalls == 1
MaxChars == 6
MaxChain == 12

\* the physical lines a file is made of (without their newline)
Lines ==
    { <<>>,
      <<"#", "c">>,
      <<"[", "a", "]">>,
      <<"[", "D", "E", "F", "A", "U", "L", "T", "]">>,
      <<"x", "=", "1">>,
      <<"X", " ", "=", " ", "2", " ", ";", "c">>,
      <<" ", "z", " ">>,
      <<"b", "a", "d", " ">> }

\* the lines of the files of a run that goes on to use the document
EditLines ==
    { <<"#", "c">>,
      <<"[", "a", "]">>,
      <<"[", "D", "E", "F", "A", "U", "L", "T", "]">>,
      <<"x", "=", "1">>,
      <<"Y", " ", ":", " ", "2", " ", ";", "c">>,
      <<" ", "z", " ">> }

\* the section names, option names and values the calls are made with
SectionNames == { <<"a">>, <<"A">> }
OptionNames == { <<"x">>, <<"Y">> }
Values == { <<"v">>, <<"p", "\n", "\n", "q">> }

\* most attributes assigned to a line object parsed on its own
MaxSets == 2

\* the lines with a comment that are parsed on their own, and the names
\* and values their objects are given
CommentedLines ==
    { <<"[", "a", "b", "]", " ", " ", " ", ";", "c">>,
      <<"[", "a", "b", "]", " ", "#", "c">>,
      <<"x", " ", "=", " ", "1", " ", " ", " ", ";", "c">>,
      <<"Y", " ", ":", " ", "2", " ", ";", "c">>,
      <<"x", "=", "1", " ", ";", "c">> }
NewNames == { <<"a">>, <<"x", "y">>, <<"a", "b", "c", "d">>,
              <<"a", "b", "c", "d", "e">> }
NewValues == { <<"1">>, <<"1", "2", "3">>, <<"1", "2", "3", "4">> }

\* spellings of the reserved section name
DefaultNames == { <<"D", "E", "F", "A", "U", "L", "T">>,
                  <<"D", "e", "f", "a", "u", "l", "t">> }

NoCall == [op |-> "none", section |-> None, name |-> None, data |-> None,
           error |-> "none"]

Init ==
    /\ \E parse_exc \in BOOLEAN :
           cfg = inifile_init(parse_exc, "lower", None)
    /\ rd = read_init
    /\ fobj = <<>>
    /\ pc = "read"
    /\ raised = NoError
    /\ calls = 0
    /\ last = NoCall
    /\ line_obj = None

\* the file is at its end when its last line has no newline
AtEnd == Len(fobj) > 0 /\ fobj[Len(fobj)][Len(fobj[Len(fobj)])] # "\n"

\* the file object yields one more line: one pass of the loop of read()
ReadLine(line, maxlines) ==
    /\ pc = "read"
    /\ ~AtEnd
    /\ Len(fobj) < maxlines
    /\ Len(line) > 0
    /\ fobj' = Append(fobj, line)
    /\ LET r == read_line(cfg, rd, line)
       IN  /\ cfg' = r.cfg
           /\ rd' = r.rd
           /\ raised' = r.raised
           /\ pc' = IF r.raised = NoError THEN "read" ELSE "done"
    /\ UNCHANGED <<calls, last, line_obj>>

\* the file object is exhausted: read() leaves its loop
EndOfFile ==
    /\ pc = "read"
    /\ LET r == read_end(cfg, rd)
       IN  /\ cfg' = r.cfg
           /\ rd' = r.rd
           /\ raised' = r.raised
    /\ pc' = "done"
    /\ UNCHANGED <<fobj, calls, last, line_obj>>

\* a call may be made on the document once read() has returned normally
CanCall == pc = "done" /\ raised = NoError /\ calls < MaxCalls

\* cfg.<sec>.<name> = data
AssignOption(sec, name, data) ==
    /\ CanCall
    /\ LET r == assign_option(cfg, sec, name, data)
       IN  /\ cfg' = r.cfg
           /\ last' = [op |-> "assign_option", section |-> sec,
                       name |-> name, data |-> data, error |-> r.error]
    /\ calls' = calls + 1
    /\ UNCHANGED <<rd, fobj, pc, raised, line_obj>>

\* del cfg.<sec>.<name>
DeleteOption(sec, name) ==
    /\ CanCall
    /\ LET r == delete_option(cfg, sec, name)
       IN  /\ cfg' = r.cfg
           /\ last' = [op |-> "delete_option", section |-> sec,
                       name |-> name, data |-> None, error |-> r.error]
    /\ calls' = calls + 1
    /\ UNCHANGED <<rd, fobj, pc, raised, line_obj>>

\* del cfg.<sec>
DeleteSection(sec) ==
    /\ CanCall
    /\ LET r == inifile_delete(cfg, sec)
       IN  /\ cfg' = r.cfg
           /\ last' = [op |-> "delete_section", section |-> sec,
                       name |-> None, data |-> None, error |-> r.error]
    /\ calls' = calls + 1
    /\ UNCHANGED <<rd, fobj, pc, raised, line_obj>>

\* cfg.<sec>.rename(oldname, newname)
RenameOption(sec, oldname, newname) ==
    /\ CanCall
    /\ LET r == rename_option(cfg, sec, oldname, newname)
       IN  /\ cfg' = r.cfg
           /\ last' = [op |-> "rename_option", section |-> sec,
                       name |-> oldname, data |-> newname,
                       error |-> r.error]
    /\ calls' = calls + 1
    /\ UNCHANGED <<rd, fobj, pc, raised, line_obj>>

\* cfg.rename(oldname, newname)
RenameSection(oldname, newname) ==
    /\ CanCall
    /\ LET r == inifile_rename(cfg, oldname, newname)
       IN  /\ cfg' = r.cfg
           /\ last' = [op |-> "rename_section", section |-> oldname,
                       name |-> None, data |-> newname, error |-> r.error]
    /\ calls' = calls + 1
    /\ UNCHANGED <<rd, fobj, pc, raised, line_obj>>

\* RawConfigParser.add_section(section)
AddSection(section) ==
    /\ CanCall
    /\ LET r == add_section(cfg, section)
       IN  /\ cfg' = r.cfg
           /\ last' = [op |-> "add_section", section |-> section,
                       name |-> None, data |-> None, error |-> r.error]
    /\ calls' = calls + 1
    /\ UNCHANGED <<rd, fobj, pc, raised, line_obj>>

\* a call that returns a value
CompatCall(op, section, name, data, r) ==
    /\ cfg' = r.cfg
    /\ last' = [op |-> op, section |-> section, name |-> name,
                data |-> data, error |-> r.error, result |-> r.result]
    /\ calls' = calls + 1
    /\ UNCHANGED <<rd, fobj, pc, raised, line_obj>>

\* RawConfigParser.get(section, option)
Get(section, option) ==
    /\ CanCall
    /\ CompatCall("get", section, option, None,
                  RawConfigParser_get(cfg, section, option))

\* RawConfigParser.set(section, option, value)
SetOption(section, option, value) ==
    /\ CanCall
    /\ CompatCall("set", section, option, value,
                  RawConfigParser_set(cfg, section, option, value))

\* the orders in which the options of a section may be iterated
IterOrders(section) ==
    IF has_section(cfg, section)
    THEN section_iterkeys(cfg, xform(cfg.sectionxform, section))
    ELSE {<<>>}

\* RawConfigParser.options(section)
Options(section) ==
    /\ CanCall
    /\ \E keys \in IterOrders(section) :
          CompatCall("options", section, None, None,
                     RawConfigParser_options(cfg, section, keys))

\* RawConfigParser.has_option(section, option)
HasOption(section, option) ==
    /\ CanCall
    /\ CompatCall("has_option", section, option, None,
                  RawConfigParser_has_option(cfg, section, option))

\* RawConfigParser.items(section)
Items(section) ==
    /\ CanCall
    /\ \E keys \in IterOrders(section) :
          CompatCall("items", section, None, None,
                     RawConfigParser_items(cfg, section, keys))

\* RawConfigParser.remove_option(section, option)
RemoveOption(section, option) ==
    /\ CanCall
    /\ CompatCall("remove_option", section, option, None,
                  RawConfigParser_remove_option(cfg, section, option))

\* RawConfigParser.remove_section(section)
RemoveSection(section) ==
    /\ CanCall
    /\ CompatCall("remove_section", section, None, None,
                  RawConfigParser_remove_section(cfg, section))

\* cfg.<sec>
ReadSection(sec) ==
    /\ CanCall
    /\ CompatCall("read_section", sec, None, None, inifile_getattr(cfg, sec))

\* cfg.<sec>.<name>
ReadOption(sec, name) ==
    /\ CanCall
    /\ CompatCall("read_option", sec, name, None,
                  getattr_option(cfg, sec, name))

\* a line is about to be typed
InitParse ==
    /\ cfg = inifile_init(TRUE, "lower", None)
    /\ rd = read_init
    /\ fobj = << <<>> >>
    /\ pc = "type"
    /\ raised = NoError
    /\ calls = 0
    /\ last = NoCall
    /\ line_obj = None

\* the line gets one more character
TypeChar(ch) ==
    /\ pc = "type"
    /\ Len(fobj[1]) < MaxChars
    /\ fobj' = <<Append(fobj[1], ch)>>
    /\ UNCHANGED <<cfg, rd, pc, raised, calls, last, line_obj>>

\* option_line.parse(line)
ParseOptionLine ==
    /\ pc = "type"
    /\ line_obj' = option_line_parse(fobj[1])
    /\ pc' = "parsed"
    /\ UNCHANGED <<cfg, rd, fobj, raised, calls, last>>

\* the raw values of the options of a section: chains of references that
\* end in text (w) or in a name that is not defined (m), two options that
\* refer to each other, and a value with two references
InterpolationConfig ==
    [n \in ({"w"} \X (0..MaxChain)) \cup ({"m"} \X (1..MaxChain))
            \cup {<<"foo", 0>>, <<"bar", 0>>, <<"pair", 0>>} |->
        IF n = <<"w", 0>> THEN <<Lit("with")>>
        ELSE IF n = <<"m", 1>> THEN <<Lit("a"), Ref(<<"reference", 0>>)>>
        ELSE IF n = <<"foo", 0>> THEN <<Ref(<<"bar", 0>>)>>
        ELSE IF n = <<"bar", 0>> THEN <<Ref(<<"foo", 0>>)>>
        ELSE IF n = <<"pair", 0>>
        THEN <<Ref(<<"w", 2>>), Lit("and"), Ref(<<"w", 1>>)>>
        ELSE <<Ref(<<n[1], n[2] - 1>>)>>]

Parsers == {"ConfigParser", "SafeConfigParser"}

\* get(section, option) of a parser has read the raw value of the option
\* and calls _interpolate
InitInterpolate ==
    /\ cfg = InterpolationConfig
    /\ \E parser \in Parsers, option \in DOMAIN InterpolationConfig :
          /\ last = [op |-> "get", section |-> None, name |-> option,
                     data |-> None, error |-> "none", parser |-> parser]
          /\ rd = IF parser = "ConfigParser"
                  THEN interpolate_init(InterpolationConfig[option])
                  ELSE interpolate_some_init(InterpolationConfig[option])
    /\ fobj = <<>>
    /\ pc = "interpolate"
    /\ raised = NoError
    /\ calls = 0
    /\ line_obj = None

\* what a step of an interpolation leaves
Interpolated(r) ==
    /\ rd' = r.rd
    /\ raised' = r.raised
    /\ pc' = IF r.raised # NoError \/ r.rd.at = "returned" THEN "done"
             ELSE "interpolate"
    /\ UNCHANGED <<cfg, fobj, calls, last, line_obj>>

\* ConfigParser._interpolate: a pass of its loop
InterpolateLoop ==
    /\ pc = "interpolate" /\ rd.at = "loop"
    /\ Interpolated(interpolate_loop(rd, cfg))

\* ConfigParser._interpolate: the test behind the loop, and the return
InterpolateAfter ==
    /\ pc = "interpolate" /\ rd.at = "after"
    /\ Interpolated(interpolate_after(rd))

\* SafeConfigParser._interpolate_some: a step
InterpolateSome ==
    /\ pc = "interpolate" /\ rd.at = "some"
    /\ Interpolated(interpolate_some(rd, cfg))

\* a line is parsed on its own
InitLine ==
    /\ cfg = inifile_init(TRUE, "lower", None)
    /\ rd = read_init
    /\ \E line \in CommentedLines : fobj = <<line>> /\ line_obj = parse(line)
    /\ pc = "line"
    /\ raised = NoError
    /\ calls = 0
    /\ last = NoCall

\* lineobj.name = name
SetLineName(name) ==
    /\ pc = "line"
    /\ calls < MaxSets
    /\ line_obj' = set_line_name(line_obj, name)
    /\ calls' = calls + 1
    /\ last' = [op |-> "set_name", section |-> None, name |-> name,
                data |-> None, error |-> "none"]
    /\ UNCHANGED <<cfg, rd, fobj, pc, raised>>

\* lineobj.value = value, for an option line
SetLineValue(value) ==
    /\ pc = "line"
    /\ calls < MaxSets
    /\ line_obj.type = "option_line"
    /\ line_obj' = set_line_value(line_obj, value)
    /\ calls' = calls + 1
    /\ last' = [op |-> "set_value", section |-> None, name |-> None,
                data |-> value, error |-> "none"]
    /\ UNCHANGED <<cfg, rd, fobj, pc, raised>>

\* a file is read, up to its end
Next ==
    \/ \E l \in Lines : ReadLine(l \o <<"\n">>, MaxLines)
    \/ \E l \in Lines : ReadLine(l, MaxLines)
    \/ EndOfFile

Spec == Init /\ [][Next]_vars

\* the lines of the files of a run that reads comment and blank lines
\* and then deletes a section
PendingLines ==
    { <<>>,
      <<"#", "c">>,
      <<"[", "a", "]">>,
      <<"[", "A", "]">>,
      <<"x", "=", "1">> }

\* a file with comment and blank lines is read and a section is deleted
NextPending ==
    \/ \E l \in PendingLines : ReadLine(l \o <<"\n">>, MaxLines)
    \/ EndOfFile
    \/ \E sec \in SectionNames : DeleteSection(sec)

SpecPending == Init /\ [][NextPending]_vars

\* a file is read and the document is then used
NextEdit ==
    \/ \E l \in EditLines : ReadLine(l \o <<"\n">>, MaxEditLines)
    \/ EndOfFile
    \/ \E sec \in SectionNames, name \in OptionNames, data \in Values :
           AssignOption(sec, name, data)
    \/ \E sec \in SectionNames, name \in OptionNames :
           DeleteOption(sec, name)
    \/ \E sec \in SectionNames : DeleteSection(sec)
    \/ \E sec \in SectionNames, oldname \in OptionNames,
          newname \in OptionNames :
           RenameOption(sec, oldname, newname)
    \/ \E oldname \in SectionNames, newname \in SectionNames :
           RenameSection(oldname, newname)
    \/ \E section \in SectionNames \cup DefaultNames : AddSection(section)

SpecEdit == Init /\ [][NextEdit]_vars

\* a line is parsed and its object is changed
NextLine ==
    \/ \E name \in NewNames : SetLineName(name)
    \/ \E value \in NewValues : SetLineValue(value)

SpecLine == InitLine /\ [][NextLine]_vars

\* the lines of the files whose headers spell the default section in
\* several letter cases
DefaultLines ==
    { <<"[", "a", "]">>,
      <<"[", "D", "E", "F", "A", "U", "L", "T", "]">>,
      <<"[", "D", "e", "f", "a", "u", "l", "t", "]">>,
      <<"[", "d", "e", "f", "a", "u", "l", "t", "]">>,
      <<"x", "=", "1">>,
      <<"Y", " ", ":", " ", "2", " ", ";", "c">> }

\* a file with such headers is read, up to its end
NextDefault ==
    \/ \E l \in DefaultLines : ReadLine(l \o <<"\n">>, MaxLines)
    \/ EndOfFile

SpecDefault == Init /\ [][NextDefault]_vars

\* the lines of the files that are used through the compatibility
\* interface
CompatLines ==
    { <<"[", "a", "]">>,
      <<"[", "D", "E", "F", "A", "U", "L", "T", "]">>,
      <<"x", "=", "1">>,
      <<"Y", " ", ":", " ", "2", " ", ";", "c">> }

\* a file is read and the document is then used through RawConfigParser
NextCompat ==
    \/ \E l \in CompatLines : ReadLine(l \o <<"\n">>, MaxLines)
    \/ EndOfFile
    \/ \E section \in SectionNames, option \in OptionNames :
           Get(section, option)
    \/ \E section \in SectionNames, option \in OptionNames,
          value \in Values :
           SetOption(section, option, value)
    \/ \E section \in SectionNames : Options(section)
    \/ \E section \in SectionNames, option \in OptionNames :
           HasOption(section, option)
    \/ \E section \in SectionNames : Items(section)
    \/ \E section \in SectionNames, option \in OptionNames :
           RemoveOption(section, option)
    \/ \E section \in SectionNames : RemoveSection(section)

SpecCompat == Init /\ [][NextCompat]_vars

\* a file is read and the document is then read from or assigned to
\* through its attributes
NextNamespace ==
    \/ \E l \in CompatLines : ReadLine(l \o <<"\n">>, MaxLines)
    \/ EndOfFile
    \/ \E sec \in SectionNames : ReadSection(sec)
    \/ \E sec \in SectionNames, name \in OptionNames :
           ReadOption(sec, name)
    \/ \E sec \in SectionNames, name \in OptionNames, data \in Values :
           AssignOption(sec, name, data)

SpecNamespace == Init /\ [][NextNamespace]_vars

\* the characters a line is typed from
Chars == {"x", "=", " ", ";", "#"}

\* a line is typed and parsed as an option line
NextParse ==
    \/ \E ch \in Chars : TypeChar(ch)
    \/ ParseOptionLine

SpecParse == InitParse /\ [][NextParse]_vars

\* a value is interpolated; the interpreter runs the call to its end
NextInterpolate ==
    \/ InterpolateLoop
    \/ InterpolateAfter
    \/ InterpolateSome

SpecInterpolate ==
    InitInterpolate /\ [][NextInterpolate]_vars /\ WF_vars(NextInterpolate)

\* ------------------------------------------------------------------------
\* What the text of a file says, line by line
\* ------------------------------------------------------------------------

\* the text of the file
Text(lines) == join(<<>>, lines)

\* the line type a line has by its own form
Kind(line) == parse(line).type

\* a section header precedes line i
HeaderBefore(lines, i) ==
    \E j \in 1..(i - 1) : Kind(lines[j]) = "section_line"

\* line i is a continuation line whose preceding physical line is an option
\* line of a section or a continuation line of such an option
RECURSIVE Attached(_, _)
Attached(lines, i) ==
    /\ Kind(lines[i]) = "continuation_line"
    /\ i > 1
    /\ HeaderBefore(lines, i)
    /\ \/ Kind(lines[i - 1]) = "option_line"
       \/ Attached(lines, i - 1)

\* line i is unparseable
Unparseable(lines, i) == Kind(lines[i]) = "None"

\* line i is a continuation line without an option to continue
Stray(lines, i) ==
    Kind(lines[i]) = "continuation_line" /\ ~Attached(lines, i)

\* line i is malformed or misplaced: unparseable, an option or continuation
\* line before the first section header, or a stray continuation line
Offending(lines, i) ==
    \/ Unparseable(lines, i)
    \/ Kind(lines[i]) \in {"option_line", "continuation_line"}
       /\ ~HeaderBefore(lines, i)
    \/ Stray(lines, i)

\* ------------------------------------------------------------------------
\* Claims
\* ------------------------------------------------------------------------

\* C1: a text without a malformed or misplaced line (the empty text
\* included) is read without an exception and the document serializes to
\* exactly that text.
C1_RoundTrip ==
    (pc = "done" /\ \A i \in 1..Len(fobj) : ~Offending(fobj, i))
        => (raised = NoError /\ inifile_str(cfg) = Text(fobj))

\* C2: in permissive mode the serialized document has as many lines as the
\* text, every line is the input line or '#' followed by the unchanged
\* input line, and the lines that got the '#' are exactly the malformed
\* and misplaced lines.
C2_CommentedOut ==
    (pc = "done" /\ ~cfg.parse_exc /\ raised = NoError)
        => LET inl == split_nl(Text(fobj))
               out == split_nl(inifile_str(cfg))
           IN  /\ Len(out) = Len(inl)
               /\ \A i \in 1..Len(inl) :
                     out[i] = IF i <= Len(fobj) /\ Offending(fobj, i)
                              THEN <<"#">> \o inl[i] ELSE inl[i]

\* C3: in permissive mode read() raises nothing, whatever the input is.
C3_PermissiveNeverRaises ==
    (pc = "done" /\ ~cfg.parse_exc) => raised = NoError

\* the lines of the text that are errors of the aggregate ParsingError, as
\* (1-based line number, line), in file order, among the first n lines
RECURSIVE ErrorsUpTo(_, _)
ErrorsUpTo(lines, n) ==
    IF n = 0 THEN <<>>
    ELSE ErrorsUpTo(lines, n - 1)
             \o (IF Unparseable(lines, n) \/ Stray(lines, n)
                 THEN << <<n, lines[n]>> >> ELSE <<>>)

FirstOrphan(lines) ==
    LET orphans == {i \in 1..Len(lines) :
                        /\ Kind(lines[i]) \notin
                              {"empty_line", "comment_line", "section_line"}
                        /\ ~HeaderBefore(lines, i)}
    IN  IF orphans = {} THEN 0
        ELSE CHOOSE i \in orphans : \A j \in orphans : i <= j

\* C5: in strict mode the first line before any section header that is
\* neither empty, comment nor section header makes read() raise
\* MissingSectionHeaderError for that line; no later line is read, and the
\* line is never an error of the aggregate ParsingError.
C5_MissingSectionHeader ==
    cfg.parse_exc
        => /\ FirstOrphan(fobj) # 0 =>
                /\ pc = "done"
                /\ raised = [type |-> "MissingSectionHeaderError",
                             errors |-> << <<FirstOrphan(fobj),
                                             fobj[FirstOrphan(fobj)]>> >>]
                /\ Len(fobj) = FirstOrphan(fobj)
           /\ FirstOrphan(fobj) = 0 =>
                raised.type # "MissingSectionHeaderError"
           /\ raised.type = "ParsingError" =>
                \A k \in 1..Len(raised.errors) :
                    HeaderBefore(fobj, raised.errors[k][1])

\* MissingSectionHeaderError raised for an option, a continuation and an
\* unparseable line that follows a comment or an empty line
C5_Witness ==
    /\ cfg.parse_exc
    /\ raised.type = "MissingSectionHeaderError"
    /\ Len(fobj) >= 2
    /\ raised.errors[1][1] = Len(fobj)

\* the index key of the section that line i (behind a header) belongs to
SectionOf(lines, i) ==
    LET h == CHOOSE j \in 1..(i - 1) :
                 /\ Kind(lines[j]) = "section_line"
                 /\ \A k \in (j + 1)..(i - 1) :
                        Kind(lines[k]) # "section_line"
    IN  parse(lines[h]).name

\* line i declares option opt (a transformed name) in section sec
Declares(lines, i, sec, opt) ==
    /\ Kind(lines[i]) = "option_line"
    /\ HeaderBefore(lines, i)
    /\ SectionOf(lines, i) = sec
    /\ lower(parse(lines[i]).name) = opt

\* the values of the continuation lines that continue an option from line i
RECURSIVE ContinuedValues(_, _)
ContinuedValues(lines, i) ==
    IF i <= Len(lines) /\ Attached(lines, i)
    THEN <<parse(lines[i]).value>> \o ContinuedValues(lines, i + 1)
    ELSE <<>>

\* the value that the option declared at line i has
DeclaredValue(lines, i) ==
    join(<<"\n">>, <<parse(lines[i]).value>> \o ContinuedValues(lines, i + 1))

\* the last line that declares opt in sec; 0 when there is none
LastDecl(lines, sec, opt) ==
    LET decls == {i \in 1..Len(lines) : Declares(lines, i, sec, opt)}
    IN  IF decls = {} THEN 0
        ELSE CHOOSE i \in decls : \A j \in decls : j <= i

\* the names of the section headers and of the option lines of the text
HeaderNames(lines) ==
    {parse(lines[i]).name : i \in {j \in 1..Len(lines) :
                                      Kind(lines[j]) = "section_line"}}
OptionKeys(lines) ==
    {lower(parse(lines[i]).name) : i \in {j \in 1..Len(lines) :
                                      Kind(lines[j]) = "option_line"}}

\* the last child of container c that is called key, or KeyError
LastChild(c, key) ==
    LET named == {i \in 1..Len(c.contents) :
                     has_name(c.contents[i]) /\ name_of(c.contents[i]) = key}
    IN  IF named = {} THEN KeyError
        ELSE c.contents[CHOOSE i \in named : \A j \in named : j <= i]

\* C6: after a read, looking an option up in a section gives the value of
\* the last line that declares it in any block of that section (or, with
\* no such line, of the last declaration in DEFAULT), and find(name) gives
\* the last child called name, or KeyError when no child is.
C6_LastDeclarationWins ==
    (pc = "done" /\ raised = NoError)
        => /\ \A sec \in HeaderNames(fobj) \ {DEFAULTSECT},
                 opt \in OptionKeys(fobj) :
                 read_option(cfg, sec, opt) =
                     IF LastDecl(fobj, sec, opt) # 0
                     THEN DeclaredValue(fobj, LastDecl(fobj, sec, opt))
                     ELSE IF LastDecl(fobj, DEFAULTSECT, opt) # 0
                     THEN DeclaredValue(fobj,
                                        LastDecl(fobj, DEFAULTSECT, opt))
                     ELSE Undefined
           /\ \A i \in 1..Len(containers_of(cfg.data)),
                 key \in HeaderNames(fobj) \cup OptionKeys(fobj)
                             \cup {<<"X">>, <<"q">>} :
                 find_child(containers_of(cfg.data)[i], key) =
                     LastChild(containers_of(cfg.data)[i], key)

\* a section with two blocks that both declare an option, with different
\* values, and the lookup gives the second
C6_Witness ==
    /\ pc = "done" /\ raised = NoError
    /\ \E i, j \in 1..Len(fobj) :
          /\ i < j
          /\ Declares(fobj, i, <<"a">>, <<"x">>)
          /\ Declares(fobj, j, <<"a">>, <<"x">>)
          /\ \E h \in (i + 1)..(j - 1) : Kind(fobj[h]) = "section_line"
          /\ DeclaredValue(fobj, i) # DeclaredValue(fobj, j)
          /\ read_option(cfg, <<"a">>, <<"x">>) = DeclaredValue(fobj, j)
          /\ find_child(cfg.data, <<"a">>).id = cfg.sections[<<"a">>].lineobj

\* ------------------------------------------------------------------------
\* The calls made on the document after the read
\* ------------------------------------------------------------------------

\* the step is a call of op on the document
Called(op) == calls' = calls + 1 /\ last'.op = op

\* the index key of an option name
OptionKey(name) == xform(cfg.optionxform, name)

\* the line records of container c in document order, without those of
\* its (sub)container skip
RECURSIVE LeavesWithout(_, _)
LeavesWithout(c, skip) ==
    LET sub[i \in 0..Len(c.contents)] ==
            IF i = 0 THEN <<>>
            ELSE sub[i - 1] \o
                 (IF ~IsContainer(c.contents[i]) THEN <<c.contents[i]>>
                  ELSE IF c.contents[i].id = skip THEN <<>>
                  ELSE LeavesWithout(c.contents[i], skip))
    IN  sub[Len(c.contents)]

Leaves(c) == LeavesWithout(c, 0)

\* C7: a name defined in DEFAULT and not in section S reads from S as the
\* DEFAULT value; assigning it in S makes S read the new value and leaves
\* the value of DEFAULT, and the value read from every other section, as
\* it was.
C7_AssignShadowsDefault ==
    [][(/\ Called("assign_option")
        /\ inifile_has(cfg, last'.section)
        /\ OptionKey(last'.name) \in DOMAIN cfg.defaults.options
        /\ OptionKey(last'.name)
               \notin DOMAIN cfg.sections[last'.section].options)
       => /\ read_option(cfg, last'.section, last'.name)
                = option_get(cfg, cfg.defaults.options[OptionKey(last'.name)])
          /\ read_option(cfg', last'.section, last'.name) = last'.data
          /\ OptionKey(last'.name) \in DOMAIN cfg'.defaults.options
          /\ option_get(cfg', cfg'.defaults.options[OptionKey(last'.name)])
                = option_get(cfg, cfg.defaults.options[OptionKey(last'.name)])
          /\ \A other \in DOMAIN cfg.sections \ {last'.section} :
                read_option(cfg', other, last'.name)
                    = read_option(cfg, other, last'.name)]_vars

\* the option of container opt, serialized as the lines out, holds the
\* lines of a value: an option line and continuation lines, one for one
HoldsLines(opt, out, lines) ==
    /\ Len(opt.contents) = Len(lines)
    /\ Len(out) = Len(lines)
    /\ \A i \in 1..Len(lines) :
          /\ opt.contents[i].type = IF i = 1 THEN "option_line"
                                    ELSE "continuation_line"
          /\ opt.contents[i].value = lines[i]
          /\ i = 1 => parse(out[i]).value = lines[i]
          /\ i > 1 => strip(out[i]) = lines[i]

\* C8: assigning a value of k lines to an option, old or new, leaves the
\* option with k lines - an option line and k-1 continuation lines, line
\* i holding line i of the value - that serialize as k physical lines;
\* the option reads back as the value, and the document has lost the
\* lines of a longer old value.
C8_AssignMultiLine ==
    [][Called("assign_option")
       => /\ last'.error = "none"
          /\ inifile_has(cfg', last'.section)
          /\ section_get(cfg', last'.section, last'.name) # 0
          /\ \A opt \in {container(cfg', section_get(cfg', last'.section,
                                                     last'.name))} :
                /\ \A out \in {split_nl(container_str(opt))} :
                      HoldsLines(opt, out, split_nl(last'.data))
                /\ get_value(opt) = last'.data
          /\ (inifile_has(cfg, last'.section)
              /\ section_get(cfg, last'.section, last'.name) # 0)
                => \A old \in {container(cfg, section_get(cfg, last'.section,
                                                          last'.name))} :
                      Len(split_nl(inifile_str(cfg')))
                          = Len(split_nl(inifile_str(cfg)))
                            - Len(old.contents) + Len(split_nl(last'.data))]_vars

\* an option read with a continuation line was assigned a value of one
\* line and is left with its option line
C8_Witness ==
    /\ last.op = "assign_option" /\ last.section = <<"a">>
    /\ last.name = <<"x">> /\ last.data = <<"v">>
    /\ \E i \in 1..(Len(fobj) - 1) :
          Declares(fobj, i, <<"a">>, <<"x">>) /\ Attached(fobj, i + 1)
    /\ Len(container(cfg, section_get(cfg, <<"a">>, <<"x">>)).contents) = 1
    /\ read_option(cfg, <<"a">>, <<"x">>) = <<"v">>

\* C9: deleting an option that is in the index of its section, or a
\* section that is in the index of the document, raises nothing and
\* removes the name from the index and its lines from the text: reading
\* the text again does not define the name.
C9_DeleteRemoves ==
    [][/\ (/\ Called("delete_option")
           /\ inifile_has(cfg, last'.section)
           /\ OptionKey(last'.name)
                  \in DOMAIN cfg.sections[last'.section].options)
          => /\ last'.error = "none"
             /\ OptionKey(last'.name)
                    \notin DOMAIN cfg'.sections[last'.section].options
             /\ LET again == inifile_read(inifile_str(cfg'), FALSE).cfg
                IN  inifile_has(again, last'.section)
                        => OptionKey(last'.name) \notin
                               DOMAIN again.sections[last'.section].options
       /\ (Called("delete_section") /\ inifile_has(cfg, last'.section))
          => /\ last'.error = "none"
             /\ ~inifile_has(cfg', last'.section)
             /\ ~inifile_has(inifile_read(inifile_str(cfg'), FALSE).cfg,
                             last'.section)]_vars

\* C10: deleting an option leaves the line records of the document as
\* they were, in their order, without the lines of that option; the index
\* of every section keeps its other entries, and the sections and DEFAULT
\* are as they were. A delete that raises changes nothing.
C10_DeleteLeavesSiblings ==
    [][Called("delete_option")
       => IF last'.error # "none" THEN cfg' = cfg
          ELSE /\ Leaves(cfg'.data) =
                     LeavesWithout(cfg.data,
                         cfg.sections[last'.section]
                            .options[OptionKey(last'.name)])
               /\ split_nl(inifile_str(cfg')) =
                     [i \in 1..Len(Leaves(cfg'.data)) |->
                         line_str(Leaves(cfg'.data)[i])]
               /\ DOMAIN cfg'.sections = DOMAIN cfg.sections
               /\ \A s \in DOMAIN cfg.sections :
                     /\ cfg'.sections[s].lineobj = cfg.sections[s].lineobj
                     /\ \A k \in DOMAIN cfg.sections[s].options :
                           IF s = last'.section /\ k = OptionKey(last'.name)
                           THEN k \notin DOMAIN cfg'.sections[s].options
                           ELSE /\ k \in DOMAIN cfg'.sections[s].options
                                /\ cfg'.sections[s].options[k]
                                       = cfg.sections[s].options[k]
                                /\ container(cfg', cfg'.sections[s].options[k])
                                       = container(cfg,
                                             cfg.sections[s].options[k])
                     /\ DOMAIN cfg'.sections[s].options
                            \subseteq DOMAIN cfg.sections[s].options
               /\ cfg'.defaults = cfg.defaults]_vars

\* an option was deleted from a section that was read with a second
\* option, which is still there with the text it was read with
C10_Witness ==
    /\ last.op = "delete_option" /\ last.error = "none"
    /\ \E i \in 1..Len(fobj) :
          /\ Kind(fobj[i]) = "option_line"
          /\ lower(parse(fobj[i]).name) # lower(last.name)
          /\ lower(parse(fobj[i]).name)
                 \in DOMAIN cfg.sections[last.section].options
          /\ \E k \in 1..Len(Leaves(cfg.data)) :
                Leaves(cfg.data)[k].line = strip_chars(fobj[i], {"\n"})
    /\ lower(last.name) \notin DOMAIN cfg.sections[last.section].options

\* the document keeps its lines, but for those of container id, and the
\* first line of that container now carries the name
RenamedInPlace(before, after, id, name) ==
    /\ Len(split_nl(inifile_str(after))) = Len(split_nl(inifile_str(before)))
    /\ LeavesWithout(after.data, id) = LeavesWithout(before.data, id)
    /\ get_name(container(after, id)) = name
    /\ parse(line_str(container(after, id).contents[1])).name = name

\* C11: renaming an option or a section that is in the index raises
\* nothing; the text then shows the new name on the line that held the old
\* one, no line being added, removed or moved, and the entry is in the
\* index under the new name and no longer under the old one.
C11_RenameInPlace ==
    [][/\ (/\ Called("rename_option")
           /\ inifile_has(cfg, last'.section)
           /\ OptionKey(last'.name)
                  \in DOMAIN cfg.sections[last'.section].options)
          => /\ last'.error = "none"
             /\ \A id \in {cfg.sections[last'.section]
                              .options[OptionKey(last'.name)]} :
                   /\ RenamedInPlace(cfg, cfg', id, last'.data)
                   /\ OptionKey(last'.data)
                          \in DOMAIN cfg'.sections[last'.section].options
                   /\ cfg'.sections[last'.section]
                          .options[OptionKey(last'.data)] = id
             /\ OptionKey(last'.data) # OptionKey(last'.name)
                   => OptionKey(last'.name)
                          \notin DOMAIN cfg'.sections[last'.section].options
       /\ (Called("rename_section") /\ inifile_has(cfg, last'.section))
          => /\ last'.error = "none"
             /\ inifile_has(cfg', last'.data)
             /\ \A id \in {cfg.sections[last'.section].lineobj} :
                   /\ RenamedInPlace(cfg, cfg', id, last'.data)
                   /\ cfg'.sections[last'.data].lineobj = id
             /\ last'.data # last'.section
                   => ~inifile_has(cfg', last'.section)]_vars

\* the header lines of the text that declare the section name
HeadersOf(lines, name) ==
    {i \in 1..Len(lines) :
        Kind(lines[i]) = "section_line" /\ parse(lines[i]).name = name}

\* the children of the document that are blocks of the section name
BlocksOf(c, name) ==
    {i \in 1..Len(c.data.contents) :
        has_name(c.data.contents[i]) /\ name_of(c.data.contents[i]) = name}

\* what the document read from the text of lines holds for the section
\* name: one section, with the options of all its blocks, every header on
\* its line, and the last block as the place of new options
OneSection(c, lines, name) ==
    /\ name \in DOMAIN c.sections
    /\ DOMAIN c.sections[name].options =
           {k \in OptionKeys(lines) : LastDecl(lines, name, k) # 0}
    /\ Cardinality(BlocksOf(c, name)) = Cardinality(HeadersOf(lines, name))
    /\ \A i \in HeadersOf(lines, name) :
           split_nl(inifile_str(c))[i] = strip_chars(lines[i], {"\n"})
    /\ c.sections[name].lineobj = LastChild(c.data, name).id

\* block after is block before with one more child, the container of a
\* new option called name
AppendedTo(before, after, name) ==
    /\ Len(after.contents) = Len(before.contents) + 1
    /\ SubSeq(after.contents, 1, Len(before.contents)) = before.contents
    /\ IsContainer(after.contents[Len(after.contents)])
    /\ get_name(after.contents[Len(after.contents)]) = name
    /\ Len(after.contents[Len(after.contents)].contents) >= 1

\* C12: a section name declared again makes no second section: the
\* document read has one section per name, with the options of all the
\* blocks of the name, each header on the line it was read from; an option
\* created afterwards becomes the last child of the block declared last,
\* and no other block changes.
C12_RedeclaredSection ==
    [][/\ (pc = "done" /\ raised = NoError /\ calls = 0)
          => /\ DOMAIN cfg.sections = HeaderNames(fobj) \ {DEFAULTSECT}
             /\ \A name \in DOMAIN cfg.sections :
                   OneSection(cfg, fobj, name)
       /\ (/\ Called("assign_option")
           /\ inifile_has(cfg, last'.section)
           /\ section_get(cfg, last'.section, last'.name) = 0)
          => /\ \A blk \in {LastChild(cfg.data, last'.section)} :
                   \A new \in {container(cfg', blk.id)} :
                      /\ AppendedTo(blk, new, last'.name)
                      /\ new.contents[Len(new.contents)].id =
                             section_get(cfg', last'.section, last'.name)
                      /\ \A i \in 1..Len(cfg.data.contents) :
                            \/ cfg'.data.contents[i] = cfg.data.contents[i]
                            \/ /\ IsContainer(cfg.data.contents[i])
                               /\ cfg.data.contents[i].id = blk.id
             /\ Len(cfg'.data.contents) = Len(cfg.data.contents)
             /\ DOMAIN cfg'.sections = DOMAIN cfg.sections]_vars

\* a section read from two blocks, the first with an option, was given a
\* new option, which is the last child of the second block
C12_Witness ==
    /\ last.op = "assign_option" /\ last.error = "none"
    /\ Cardinality(HeadersOf(fobj, last.section)) = 2
    /\ Cardinality(BlocksOf(cfg, last.section)) = 2
    /\ Cardinality(DOMAIN cfg.sections[last.section].options) = 2
    /\ \E i \in BlocksOf(cfg, last.section) :
          /\ \A j \in BlocksOf(cfg, last.section) : j <= i
          /\ get_name(cfg.data.contents[i]
                         .contents[Len(cfg.data.contents[i].contents)])
                 = last.name
    /\ \E i \in BlocksOf(cfg, last.section) :
          \E j \in BlocksOf(cfg, last.section) :
             i < j /\ Len(cfg.data.contents[i].contents) = 2

\* ------------------------------------------------------------------------
\* A line object that is changed
\* ------------------------------------------------------------------------

\* the text of line object x in front of its comment
NewText(x) ==
    IF x.type = "section_line" THEN <<"[">> \o x.name \o <<"]">>
    ELSE x.name \o <<" ">> \o x.separator \o <<" ">> \o x.value

\* the column (from 0) of the comment separator in a line that has one
SeparatorColumn(line) == find(line, {";", "#"})

\* the line out is text, blanks up to column at, and there the comment
\* separator and the comment of the line orig
CommentAt(out, text, at, orig) ==
    /\ Len(out) = at + Len(orig) - SeparatorColumn(orig)
    /\ SubSeq(out, 1, Len(text)) = text
    /\ \A i \in (Len(text) + 1)..at : out[i] = " "
    /\ SubSeq(out, at + 1, Len(out)) =
           SubSeq(orig, SeparatorColumn(orig) + 1, Len(orig))

\* C13: a parsed section or option line with a comment, once its name or
\* value is changed, is written with the comment separator in its old
\* column when the new text and one blank end at or before that column,
\* and one blank behind the new text otherwise; the comment is the same.
C13_CommentColumn ==
    (pc = "line" /\ line_obj.line = None /\ line_obj.comment # None)
        => CommentAt(line_str(line_obj), NewText(line_obj),
                     Max(SeparatorColumn(fobj[1]),
                         Len(NewText(line_obj)) + 1),
                     fobj[1])

\* a line changed to a text that ends more than one blank before the
\* column of the separator, which is written in that column
C13_Witness ==
    /\ pc = "line" /\ line_obj.line = None /\ line_obj.comment # None
    /\ last.op = "set_name"
    /\ Len(NewText(line_obj)) + 1 < SeparatorColumn(fobj[1])
    /\ line_str(line_obj)[SeparatorColumn(fobj[1]) + 1] \in {";", "#"}

\* ------------------------------------------------------------------------
\* Iteration
\* ------------------------------------------------------------------------

\* the elements of a sequence
Range(q) == {q[i] : i \in 1..Len(q)}

\* C14: iterating the option names of a section yields each name that is
\* visible from it once: the names of the section first, then the names
\* that only DEFAULT has.
C14_IterOptionsOnce ==
    (pc = "done" /\ raised = NoError)
        => \A sec \in DOMAIN cfg.sections :
              \A keys \in section_iterkeys(cfg, sec) :
                 /\ Range(keys) = DOMAIN cfg.sections[sec].options
                                      \cup DOMAIN cfg.defaults.options
                 /\ \A i, j \in 1..Len(keys) : i # j => keys[i] # keys[j]
                 /\ \A i, j \in 1..Len(keys) :
                       (/\ keys[i] \in DOMAIN cfg.sections[sec].options
                        /\ keys[j] \notin DOMAIN cfg.sections[sec].options)
                          => i < j

\* the spellings of option names that the calls and the files use
Spellings ==
    OptionNames \cup {lower(n) : n \in OptionNames} \cup {<<"X">>, <<"y">>}

\* how often key is in the sequence keys
Count(keys, key) == Cardinality({i \in 1..Len(keys) : keys[i] = key})

\* C15: after an option was set under a name, every spelling of the name
\* with the same lower case reads the value, and the options of the
\* section list the lower-case name once and no other spelling of it;
\* section names are taken as they are: setting an option in a section
\* whose name differs from another one by case only makes or changes that
\* section, and leaves the other one with its own options.
C15_OptionCaseFolded ==
    [][Called("assign_option")
       => /\ last'.error = "none"
          /\ inifile_has(cfg', last'.section)
          /\ \A n \in Spellings :
                lower(n) = lower(last'.name)
                   => read_option(cfg', last'.section, n) = last'.data
          /\ \A keys \in section_iterkeys(cfg', last'.section) :
                /\ Count(keys, lower(last'.name)) = 1
                /\ \A n \in Spellings :
                      (lower(n) = lower(last'.name) /\ n # lower(n))
                         => Count(keys, n) = 0
          /\ DOMAIN cfg'.sections = DOMAIN cfg.sections \cup {last'.section}
          /\ \A other \in DOMAIN cfg.sections \ {last'.section} :
                /\ cfg'.sections[other] = cfg.sections[other]
                /\ cfg'.sections[other].lineobj
                       # cfg'.sections[last'.section].lineobj
                /\ \A blk \in {container(cfg, cfg.sections[other].lineobj)} :
                      container(cfg', blk.id) = blk]_vars

\* ------------------------------------------------------------------------
\* RawConfigParser
\* ------------------------------------------------------------------------

\* the section header lines among the line records of the document
HeaderLeaves(c) ==
    SelectSeq(Leaves(c.data), LAMBDA x : x.type = "section_line")

\* document after is document before with one more section, called name
OneSectionAdded(before, after, name) ==
    /\ DOMAIN after.sections = DOMAIN before.sections \cup {name}
    /\ \A other \in DOMAIN before.sections :
          after.sections[other] = before.sections[other]
    /\ after.defaults = before.defaults
    /\ DOMAIN after.sections[name].options = {}
    /\ get_name(container(after, after.sections[name].lineobj)) = name
    /\ Len(HeaderLeaves(after)) = Len(HeaderLeaves(before)) + 1
    /\ SubSeq(Leaves(after.data), 1, Len(Leaves(before.data)))
           = Leaves(before.data)
    /\ Leaves(after.data)[Len(Leaves(after.data))].name = name

\* C16: add_section raises ValueError for the reserved name in any letter
\* case and DuplicateSectionError for the name of a section of the
\* document, and then leaves the document as it was; for any other name
\* it adds one section of that name.
C16_AddSection ==
    [][Called("add_section")
       => IF lower(last'.section) = lower(DEFAULTSECT)
          THEN last'.error = "ValueError" /\ cfg' = cfg
          ELSE IF last'.section \in DOMAIN cfg.sections
          THEN last'.error = "DuplicateSectionError" /\ cfg' = cfg
          ELSE /\ last'.error = "none"
               /\ \A after \in {cfg'} :
                     OneSectionAdded(cfg, after, last'.section)]_vars

\* add_section has refused the reserved name in mixed case for a document
\* that has sections
C16_Witness ==
    /\ last.op = "add_section" /\ last.error = "ValueError"
    /\ last.section # DEFAULTSECT
    /\ DOMAIN cfg.sections # {}
    /\ inifile_str(cfg) = strip_chars(Text(fobj), {"\n"}) \o <<"\n">>

\* the section names of the text, DEFAULT left out, in the order of their
\* first headers among the first n lines
RECURSIVE SectionOrder(_, _)
SectionOrder(lines, n) ==
    IF n = 0 THEN <<>>
    ELSE IF /\ Kind(lines[n]) = "section_line"
            /\ parse(lines[n]).name # DEFAULTSECT
            /\ parse(lines[n]).name \notin Range(SectionOrder(lines, n - 1))
    THEN Append(SectionOrder(lines, n - 1), parse(lines[n]).name)
    ELSE SectionOrder(lines, n - 1)

\* the section that the last call has created, if any
Created ==
    IF /\ last.op \in {"assign_option", "add_section"}
       /\ last.error = "none"
       /\ last.section \notin Range(SectionOrder(fobj, Len(fobj)))
    THEN <<last.section>> ELSE <<>>

\* C17: iterating the document yields each section name once, in the order
\* of the first header of the name in the file, then the sections created
\* later in the order of their creation; DEFAULT is not yielded.
C17_IterSectionsInOrder ==
    (/\ pc = "done" /\ raised = NoError /\ calls <= 1
     /\ last.op \in {"none", "assign_option", "add_section"}
     /\ last.error = "none")
        => \A keys \in inifile_iterkeys(cfg) :
              keys = SectionOrder(fobj, Len(fobj)) \o Created

\* ------------------------------------------------------------------------
\* finditer
\* ------------------------------------------------------------------------

\* the header lines of the text that declare the section name, in file order
SortedHeaders(lines, name) ==
    SelectSeq([i \in 1..Len(lines) |-> i],
              LAMBDA i : i \in HeadersOf(lines, name))

\* the values of the options that the text declares in the block of the
\* header at line h, in file order
BlockValues(lines, h) ==
    LET idx == SelectSeq([i \in 1..Len(lines) |-> i],
                   LAMBDA i : /\ i > h
                              /\ Kind(lines[i]) = "option_line"
                              /\ \A k \in (h + 1)..(i - 1) :
                                     Kind(lines[k]) # "section_line")
    IN  [j \in 1..Len(idx) |-> DeclaredValue(lines, idx[j])]

\* the values of the options that a block of the document holds, in order
OptionValues(block) ==
    LET opts == SelectSeq(block.contents, IsContainer)
    IN  [j \in 1..Len(opts) |-> get_value(opts[j])]

\* C18 as stated: iterating finditer(name) over the document yields every
\* block of the section name, oldest first: the k-th block yielded is the
\* block of the k-th header of the name in the file.
C18_FindIterOldestFirst ==
    (pc = "done" /\ raised = NoError)
        => \A name \in HeaderNames(fobj) :
              \A found \in {finditer(cfg.data, name)} :
                 /\ Len(found) = Len(SortedHeaders(fobj, name))
                 /\ \A k \in 1..Len(found) :
                       OptionValues(found[k]) =
                           BlockValues(fobj, SortedHeaders(fobj, name)[k])

\* C18 amended: iterating finditer(name) over the document yields every
\* block of the section name, newest first: the k-th block yielded is the
\* block of the k-th last header of the name in the file.
C18_FindIterNewestFirst ==
    (pc = "done" /\ raised = NoError)
        => \A name \in HeaderNames(fobj) :
              \A found \in {finditer(cfg.data, name)} :
                 /\ Len(found) = Len(SortedHeaders(fobj, name))
                 /\ \A k \in 1..Len(found) :
                       OptionValues(found[k]) =
                           BlockValues(fobj, SortedHeaders(fobj, name)
                                                [Len(found) + 1 - k])

\* a section read from two blocks with different options: the block
\* yielded first is the one declared last
C18_Witness ==
    /\ pc = "done" /\ raised = NoError
    /\ \E name \in HeaderNames(fobj) :
          /\ Len(finditer(cfg.data, name)) = 2
          /\ OptionValues(finditer(cfg.data, name)[1]) = <<<<"2">>>>
          /\ OptionValues(finditer(cfg.data, name)[2]) = <<<<"1">>>>

\* ------------------------------------------------------------------------
\* Multi-line values across blank and comment lines
\* ------------------------------------------------------------------------

\* line j is a continuation line behind the option line i of a section,
\* with nothing but continuation, blank and comment lines between them
Spans(lines, i, j) ==
    /\ i < j
    /\ Kind(lines[i]) = "option_line"
    /\ HeaderBefore(lines, i)
    /\ Kind(lines[j]) = "continuation_line"
    /\ \A k \in (i + 1)..(j - 1) :
          Kind(lines[k]) \in {"continuation_line", "empty_line",
                              "comment_line"}

\* the last line that continues the option of line i; i when none does
SpanEnd(lines, i) ==
    LET js == {i} \cup {j \in 1..Len(lines) : Spans(lines, i, j)}
    IN  CHOOSE j \in js : \A k \in js : k <= j

\* what the lines from..to add to a value: a continuation line its value,
\* a blank line an empty line, a comment line nothing
RECURSIVE SpannedValues(_, _, _)
SpannedValues(lines, from, to) ==
    IF from > to THEN <<>>
    ELSE (IF Kind(lines[from]) = "continuation_line"
          THEN <<parse(lines[from]).value>>
          ELSE IF Kind(lines[from]) = "empty_line" THEN << <<>> >>
          ELSE <<>>) \o SpannedValues(lines, from + 1, to)

\* the value of the option of line i when it may span blank and comment
\* lines
SpanValue(lines, i) ==
    join(<<"\n">>, <<parse(lines[i]).value>>
                       \o SpannedValues(lines, i + 1, SpanEnd(lines, i)))

\* line i is malformed or misplaced when continuation lines may follow
\* their option across blank and comment lines
OffendingAcross(lines, i) ==
    \/ Unparseable(lines, i)
    \/ Kind(lines[i]) \in {"option_line", "continuation_line"}
       /\ ~HeaderBefore(lines, i)
    \/ Kind(lines[i]) = "continuation_line"
       /\ \A h \in 1..(i - 1) : ~Spans(lines, h, i)

\* the line records that read() leaves for the text
RecordsRead(lines) ==
    Len(lines) + (IF lines[Len(lines)][Len(lines[Len(lines)])] = "\n"
                  THEN 1 ELSE 0)

\* C19: a multi-line value may span blank and comment lines. A text whose
\* continuation lines all follow an option, with at most continuation,
\* blank and comment lines between, is read without error; each option
\* reads as its own value extended by those continuation lines (a blank
\* line between giving an empty line, a comment line nothing), and the
\* continuation lines are written back as continuation lines. Assigning
\* a single-line value to such an option takes all the lines up to its
\* last continuation line out of the document.
C19_ValueSpansBlankAndComment ==
    (/\ pc = "done" /\ Len(fobj) > 0
     /\ \A i \in 1..Len(fobj) : ~OffendingAcross(fobj, i))
        => /\ raised = NoError
           /\ calls = 0 =>
                 /\ \A sec \in HeaderNames(fobj) \ {DEFAULTSECT},
                       opt \in OptionKeys(fobj) :
                       LastDecl(fobj, sec, opt) # 0
                           => read_option(cfg, sec, opt) =
                                 SpanValue(fobj, LastDecl(fobj, sec, opt))
                 /\ \A j \in 1..Len(fobj) :
                       Kind(fobj[j]) = "continuation_line"
                           => Kind(split_nl(inifile_str(cfg))[j])
                                  = "continuation_line"
           /\ (/\ calls = 1 /\ last.op = "assign_option"
               /\ last.error = "none"
               /\ find(last.data, {"\n"}) = -1
               /\ LastDecl(fobj, last.section, lower(last.name)) # 0)
                 => \A i \in {LastDecl(fobj, last.section,
                                        lower(last.name))} :
                       Len(Leaves(cfg.data)) =
                           RecordsRead(fobj) - (SpanEnd(fobj, i) - i)

\* ------------------------------------------------------------------------
\* The default section in any letter case
\* ------------------------------------------------------------------------

\* a name is the name of the default section, in whatever letter case
IsDefaultName(name) == lower(name) = lower(DEFAULTSECT)

\* the last option line that declares opt behind a header that names the
\* default section in any letter case; 0 when there is none
LastDefaultDecl(lines, opt) ==
    LET decls == {i \in 1..Len(lines) :
                     /\ Kind(lines[i]) = "option_line"
                     /\ HeaderBefore(lines, i)
                     /\ IsDefaultName(SectionOf(lines, i))
                     /\ lower(parse(lines[i]).name) = opt}
    IN  IF decls = {} THEN 0
        ELSE CHOOSE i \in decls : \A j \in decls : j <= i

\* C20: a header that names the default section in any letter case makes
\* no ordinary section: no section of the document read has such a name,
\* the options behind such a header are options of DEFAULT, and every
\* section that does not declare them itself reads them as fallbacks.
C20_DefaultAnyCase ==
    (pc = "done" /\ raised = NoError)
        => /\ \A name \in DOMAIN cfg.sections : ~IsDefaultName(name)
           /\ \A opt \in OptionKeys(fobj) :
                 LastDefaultDecl(fobj, opt) # 0
                     => /\ opt \in DOMAIN cfg.defaults.options
                        /\ option_get(cfg, cfg.defaults.options[opt]) =
                               DeclaredValue(fobj, LastDefaultDecl(fobj, opt))
                        /\ \A sec \in DOMAIN cfg.sections :
                              LastDecl(fobj, sec, opt) = 0
                                  => read_option(cfg, sec, opt) =
                                        DeclaredValue(fobj,
                                            LastDefaultDecl(fobj, opt))

\* ------------------------------------------------------------------------
\* The errors of the compatibility interface
\* ------------------------------------------------------------------------

\* the calls that need their section
NeedSection == {"get", "set", "options", "has_option", "items",
                "remove_option"}

\* what a call of the compatibility interface does about a section or
\* an option that is not there
CompatErrors ==
    /\ (last'.op \in NeedSection /\ ~has_section(cfg, last'.section))
          => last'.error = "NoSectionError"
    /\ (/\ last'.op = "get"
        /\ has_section(cfg, last'.section)
        /\ section_get(cfg, last'.section, last'.name) = 0)
          => last'.error = "NoOptionError"
    /\ (last'.op = "remove_option" /\ has_section(cfg, last'.section))
          => /\ last'.error = "none"
             /\ last'.result \in {0, 1}
             /\ last'.result = 0
                   => /\ section_get(cfg, last'.section,
                                     last'.name) = 0
                      /\ cfg' = cfg
             /\ last'.result = 1
                   => /\ section_get(cfg, last'.section,
                                     last'.name) # 0
                      /\ OptionKey(last'.name) \notin
                            DOMAIN cfg'.sections[last'.section].options
    /\ (/\ last'.op = "remove_section"
        /\ ~has_section(cfg, last'.section))
          => last'.error = "none" /\ last'.result = FALSE
    /\ (\/ last'.error # "none"
        \/ last'.op = "remove_section" /\ last'.result = FALSE)
          => cfg' = cfg

\* C21: get, set, options, has_option, items and remove_option raise
\* NoSectionError for a section that does not exist; get raises
\* NoOptionError for an option that neither the section nor DEFAULT
\* defines; remove_option on a section that exists raises nothing and
\* returns 1 when it has removed the option and 0 when there was none;
\* remove_section returns False for a section that does not exist; a call
\* that fails leaves the document as it was.
C21_CompatErrors == [][(calls' = calls + 1) => CompatErrors]_vars

\* ------------------------------------------------------------------------
\* Placeholders
\* ------------------------------------------------------------------------

\* what reading does: the document stays as it is, and what is missing
\* reads as a placeholder
ReadsPlaceholder ==
    /\ Called("read_section")
          => /\ cfg' = cfg
             /\ last'.error = "none"
             /\ (last'.result = unknown(last'.section))
                    <=> ~inifile_has(cfg, last'.section)
    /\ (Called("read_option") /\ inifile_has(cfg, last'.section))
          => /\ cfg' = cfg
             /\ last'.error = "none"
             /\ (last'.result = unknown(last'.name))
                    <=> section_get(cfg, last'.section, last'.name) = 0
    /\ (Called("read_option") /\ ~inifile_has(cfg, last'.section))
          => cfg' = cfg

\* what assigning through a placeholder does: the section is there with
\* the option, which reads as assigned
AssignCreates ==
    (Called("assign_option") /\ ~inifile_has(cfg, last'.section))
        => /\ last'.error = "none"
           /\ DOMAIN cfg'.sections = DOMAIN cfg.sections
                                         \cup {last'.section}
           /\ getattr_option(cfg', last'.section, last'.name).result
                  = last'.data
           /\ Len(cfg'.data.contents) > Len(cfg.data.contents)

\* C22: reading a section or an option that is missing returns a
\* placeholder and leaves the document as it was; a section is created
\* by an assignment through the placeholder only, after which the option
\* assigned reads as assigned under that section.
C22_ReadLeavesUnchanged ==
    [][/\ ReadsPlaceholder
       /\ AssignCreates
       /\ (calls' = calls + 1 /\ DOMAIN cfg'.sections # DOMAIN cfg.sections)
             => Called("assign_option") /\ ~inifile_has(cfg, last'.section)
      ]_vars

\* a section that the file does not have was read as a placeholder, with
\* the file's section and lines left as they were
C22_Witness ==
    /\ last.op = "read_section" /\ last.result = unknown(last.section)
    /\ DOMAIN cfg.sections = {<<"a">>}
    /\ Len(Leaves(cfg.data)) = Len(fobj) + 1
    /\ Len(fobj) >= 2

\* ------------------------------------------------------------------------
\* Inline comments of option lines
\* ------------------------------------------------------------------------

\* the column (from 1) of the first separator of line r
SepAt(r) == CHOOSE i \in 1..Len(r) :
                /\ r[i] \in {":", "="}
                /\ \A j \in 1..(i - 1) : r[j] \notin {":", "="}

\* the column where the value of line r starts: behind the separator and
\* the whitespace that follows it
ValueAt(r) ==
    CHOOSE i \in (SepAt(r) + 1)..(Len(r) + 1) :
        /\ i = Len(r) + 1 \/ r[i] \notin Whitespace
        /\ \A j \in (SepAt(r) + 1)..(i - 1) : r[j] \in Whitespace

\* the columns of the semicolons of the value of line r
Semicolons(r) == {i \in ValueAt(r)..Len(r) : r[i] = ";"}

\* the column of the first semicolon of the value of line r
FirstSemicolon(r) ==
    CHOOSE i \in Semicolons(r) : \A j \in Semicolons(r) : i <= j

\* the first semicolon of the value of line r has whitespace before it in
\* the value
CommentSplit(r) ==
    /\ Semicolons(r) # {}
    /\ FirstSemicolon(r) > ValueAt(r)
    /\ r[FirstSemicolon(r) - 1] \in Whitespace

\* the option line lo is what line r says: the comment from the first
\* semicolon of the value when whitespace is before it, and else none
SplitsAsSaid(lo, r) ==
    /\ (lo.comment # None) <=> CommentSplit(r)
    /\ CommentSplit(r)
          => /\ lo.value = rstrip(SubSeq(r, ValueAt(r),
                                         FirstSemicolon(r) - 1))
             /\ lo.comment = SubSeq(r, FirstSemicolon(r) + 1, Len(r))
             /\ lo.comment_separator = <<";">>
             /\ lo.comment_offset = FirstSemicolon(r) - 1
    /\ ~CommentSplit(r)
          => /\ lo.value = SubSeq(r, ValueAt(r), Len(r))
             /\ lo.comment_separator = None
             /\ lo.comment_offset = -1

RECURSIVE ExpandsWithin(_, _, _)
ExpandsWithin(value, map, n) ==
    \/ ~has_reference(value)
    \/ /\ n > 0
       /\ \A i \in 1..Len(value) :
             value[i].kind = "ref"
                 => /\ value[i].text \in DOMAIN map
                    /\ ExpandsWithin(map[value[i].text], map, n - 1)

\* a chain of references of value meets a name that is not defined within
\* n levels
RECURSIVE UndefinedWithin(_, _, _)
UndefinedWithin(value, map, n) ==
    /\ n > 0
    /\ \E i \in 1..Len(value) :
          /\ value[i].kind = "ref"
          /\ \/ value[i].text \notin DOMAIN map
             \/ /\ value[i].text \in DOMAIN map
                /\ UndefinedWithin(map[value[i].text], map, n - 1)

\* the text of value with every reference expanded, n levels deep
RECURSIVE Expansion(_, _, _)
Expansion(value, map, n) ==
    IF n = 0 \/ ~has_reference(value) THEN value
    ELSE LET sub[i \in 0..Len(value)] ==
                 IF i = 0 THEN <<>>
                 ELSE sub[i - 1] \o
                      (IF value[i].kind = "ref"
                       THEN Expansion(map[value[i].text], map, n - 1)
                       ELSE <<value[i]>>)
         IN  sub[Len(value)]

\* how get(section, option) has ended for the raw value rawval
EndsAsSaid(rawval) ==
    /\ ExpandsWithin(rawval, cfg, 10)
          => /\ raised = NoError
             /\ rd.value = Expansion(rawval, cfg, 10)
    /\ UndefinedWithin(rawval, cfg, 10)
          => raised.type = "InterpolationMissingOptionError"
    /\ (~ExpandsWithin(rawval, cfg, 10) /\ ~UndefinedWithin(rawval, cfg, 10))
          => raised.type = "InterpolationDepthError"

\* C24: get of ConfigParser and of SafeConfigParser always ends: with the
\* value fully expanded when its chains of references are at most 10
\* levels deep, with InterpolationDepthError when a chain has 11 levels or
\* more or runs in a circle, and with InterpolationMissingOptionError when
\* a chain meets a name that is not defined; the two classes agree.
C24_InterpolationEnds ==
    (pc = "interpolate") ~> (pc = "done" /\ EndsAsSaid(cfg[last.name]))

\* SafeConfigParser has expanded a chain of 10 levels
C24_Witness ==
    /\ pc = "done" /\ raised = NoError
    /\ last.parser = "SafeConfigParser"
    /\ last.name = <<"w", 10>>
    /\ rd.value = <<Lit("with")>>

\* ------------------------------------------------------------------------
\* Continuation lines while reading
\* ------------------------------------------------------------------------

\* the continuation line new, read as line n, has become the last line of
\* the option that was open
AttachedToOption(before, after, f, g, new) ==
    /\ f.cur_option # 0
    /\ g.cur_option = f.cur_option
    /\ container(after, f.cur_option).contents =
           Append(container(before, f.cur_option).contents, parse(new))
    /\ g.exc = f.exc
    /\ g.pending_lines = f.pending_lines

\* the continuation line new, read as line n, has become a comment that
\* waits for its place, and in strict mode an error
Demoted(before, after, f, g, new, n) ==
    /\ after.data = before.data
    /\ g.cur_option = 0
    /\ Len(g.pending_lines) = Len(f.pending_lines) + 1
    /\ g.pending_lines[Len(g.pending_lines)].type = "comment_line"
    /\ line_str(g.pending_lines[Len(g.pending_lines)]) =
           <<"#">> \o rstrip(new)
    /\ g.exc = IF before.parse_exc THEN Append(f.exc, <<n, new>>) ELSE f.exc

Blocks(c) == SelectSeq(c.data.contents, IsContainer)

\* the index keys of the headers that the top-level container holds
HeaderKeys(c) ==
    {xform(c.sectionxform, get_name(Blocks(c)[i])) :
        i \in 1..Len(Blocks(c))}

\* the index keys of the option lines that the blocks of the section key
\* sec hold
OptionLineKeys(c, sec) ==
    UNION {{xform(c.optionxform, get_name(Blocks(c)[i].contents[k])) :
               k \in {j \in 1..Len(Blocks(c)[i].contents) :
                         IsContainer(Blocks(c)[i].contents[j])}} :
           i \in {j \in 1..Len(Blocks(c)) :
                     xform(c.sectionxform, get_name(Blocks(c)[j])) = sec}}

\* C26: after a read and any operation on the document, a section name
\* is in the index of the document exactly when the top-level container
\* holds a header of that name, and an option name is in the index of a
\* section exactly when a block of that section holds an option line of
\* that name.
C26_IndexMatchesLines ==
    (pc = "done" /\ raised = NoError)
        => /\ DOMAIN cfg.sections = HeaderKeys(cfg) \ {DEFAULTSECT}
           /\ \A sec \in DOMAIN cfg.sections :
                 DOMAIN cfg.sections[sec].options = OptionLineKeys(cfg, sec)
           /\ DOMAIN cfg.defaults.options = OptionLineKeys(cfg, DEFAULTSECT)

\* ------------------------------------------------------------------------
\* The original text of a line and its canonical rendering
\* ------------------------------------------------------------------------

\* text is the canonical rendering of the fields of line x: its name (for
\* an option: name, space, separator, space, value) and, behind at least
\* one space, its comment if it has one
IsCanonical(text, x) ==
    IF x.comment = None THEN text = NewText(x)
    ELSE \E pad \in 1..Len(text) :
            text = NewText(x) \o Spaces(pad)
                       \o x.comment_separator \o x.comment

\* line x has the name and the value that text has when parsed
SameFields(x, text) ==
    /\ x.name = parse(text).name
    /\ x.type = "option_line" => x.value = parse(text).value

\* C27 as stated: a line that has had no field assigned serializes to its
\* original text; once a field has been assigned it serializes to the
\* canonical rendering of its fields and never again to the original
\* text.
C27_NeverOriginalText ==
    (pc = "line")
        => /\ calls = 0 => line_str(line_obj) = fobj[1]
           /\ calls > 0 => /\ IsCanonical(line_str(line_obj), line_obj)
                           /\ line_str(line_obj) # fobj[1]

\* C27 amended: a line that has had no field assigned serializes to its
\* original text; once a field has been assigned it serializes to the
\* canonical rendering of its fields, which is the original text only
\* when that text is the canonical rendering of the same fields.
C27_CanonicalOnceAssigned ==
    (pc = "line")
        => /\ calls = 0 => line_str(line_obj) = fobj[1]
           /\ calls > 0
                 => /\ IsCanonical(line_str(line_obj), line_obj)
                    /\ line_str(line_obj) = fobj[1]
                          => /\ SameFields(line_obj, fobj[1])
                             /\ IsCanonical(fobj[1], parse(fobj[1]))

\* an option line written without spaces has had its value assigned and
\* is written with them
C27_Witness ==
    /\ pc = "line" /\ calls > 0 /\ last.op = "set_value"
    /\ fobj[1] = <<"x", "=", "1", " ", ";", "c">>
    /\ line_obj.value = <<"1">>
    /\ line_str(line_obj) = <<"x", " ", "=", " ", "1", " ", ";", "c">>

\* ------------------------------------------------------------------------
\* Comment and blank lines while reading
\* ------------------------------------------------------------------------

\* the children of a container that are lines, not blocks
OwnLines(c) == SelectSeq(c.contents, LAMBDA x : ~IsContainer(x))

\* the comment or blank line new has been put behind the lines that wait
HeldBack(before, after, f, g, new) ==
    /\ after.data = before.data
    /\ g.pending_lines = Append(f.pending_lines, parse(new))

\* the lines that waited and then the option line new have become the
\* last children of the block of the current section
FlushedBeforeOption(before, after, f, g, new) ==
    /\ f.cur_section # 0
    /\ container(after, f.cur_section).contents =
           container(before, f.cur_section).contents
               \o f.pending_lines
               \o <<new_container(before.nextid, <<parse(new)>>)>>
    /\ OwnLines(after.data) = OwnLines(before.data)
    /\ g.pending_lines = <<>>

\* the lines that waited and then the block of the header new have become
\* the last children of the top-level container
FlushedBeforeHeader(before, after, f, g, new) ==
    /\ after.data.contents =
           before.data.contents
               \o f.pending_lines
               \o <<new_container(before.nextid, <<parse(new)>>)>>
    /\ g.pending_lines = <<>>

\* the lines that waited have become children of the top-level container
\* behind the children it had
FlushedAtEnd(before, after, f) ==
    /\ Len(after.data.contents)
           >= Len(before.data.contents) + Len(f.pending_lines)
    /\ SubSeq(after.data.contents, 1,
              Len(before.data.contents) + Len(f.pending_lines)) =
           before.data.contents \o f.pending_lines

\* one block has gone from the top-level container and every line of the
\* top-level container has stayed
BlockGone(before, after) ==
    /\ Len(after.data.contents) = Len(before.data.contents) - 1
    /\ OwnLines(after.data) = OwnLines(before.data)

\* what a step does with comment and blank lines
PendingStep ==
    \A after \in {cfg'} : \A g \in {rd'} : \A lines \in {fobj'} :
       /\ (pc = "read" /\ Len(lines) = Len(fobj) + 1 /\ raised' = NoError)
             => \A new \in {lines[Len(lines)]} :
                  /\ Kind(new) \in {"comment_line", "empty_line"}
                        => HeldBack(cfg, after, rd, g, new)
                  /\ (Kind(new) = "option_line"
                        /\ HeaderBefore(lines, Len(lines)))
                        => FlushedBeforeOption(cfg, after, rd, g, new)
                  /\ Kind(new) = "section_line"
                        => FlushedBeforeHeader(cfg, after, rd, g, new)
       /\ (pc = "read" /\ pc' = "done" /\ lines = fobj)
             => FlushedAtEnd(cfg, after, rd)
       /\ (pc = "done" /\ calls' = calls + 1
              /\ last'.op = "delete_section" /\ last'.error = "none")
             => BlockGone(cfg, after)

\* C28: while a file is read, comment and blank lines are held back until
\* the next option line or section header; those right before an option
\* become children of the block of the current section just before that
\* option, those right before a section header or the end of the file
\* become children of the top-level container; so deleting a section
\* leaves the comment and blank lines between its last option and the
\* next header in the document.
C28_PendingLines == [][PendingStep]_vars

\* section a, an option, a comment, a blank line and section A were read;
\* section a was deleted and the comment and the blank line are still in
\* front of the header of A
C28_Witness ==
    /\ pc = "done" /\ raised = NoError /\ calls = 1
    /\ last.op = "delete_section" /\ last.section = <<"a">>
    /\ last.error = "none"
    /\ Len(fobj) = 4
    /\ Kind(fobj[1]) = "section_line" /\ Kind(fobj[2]) = "option_line"
    /\ Kind(fobj[3]) = "comment_line"
    /\ Kind(fobj[4]) = "section_line"
    /\ Len(cfg.data.contents) >= 2
    /\ cfg.data.contents[1].type = "comment_line"
    /\ IsContainer(cfg.data.contents[2])

\* ------------------------------------------------------------------------
\* Renaming and the number of entries
\* ------------------------------------------------------------------------

\* newkey is not the key of another entry of index than oldkey
NoOtherEntry(index, oldkey, newkey) ==
    newkey \notin (DOMAIN index) \ {oldkey}

\* the index holds as many entries as before and the entry of oldkey is
\* the entry of newkey
EntryKept(before, after, oldkey, newkey) ==
    /\ Cardinality(DOMAIN after) = Cardinality(DOMAIN before)
    /\ newkey \in DOMAIN after
    /\ after[newkey].lineobj = before[oldkey].lineobj

\* an option of section sec was renamed and the index of the section kept
\* its entries
OptionEntryKept(after, sec, oldname, newname) ==
    (/\ sec \in DOMAIN cfg.sections
     /\ NoOtherEntry(cfg.sections[sec].options,
                     xform(cfg.optionxform, oldname),
                     xform(cfg.optionxform, newname)))
        => /\ sec \in DOMAIN after.sections
           /\ Cardinality(DOMAIN after.sections[sec].options) =
                  Cardinality(DOMAIN cfg.sections[sec].options)
           /\ xform(cfg.optionxform, newname)
                  \in DOMAIN after.sections[sec].options
           /\ after.sections[sec].options[xform(cfg.optionxform, newname)]
                  = cfg.sections[sec].options[xform(cfg.optionxform,
                                                    oldname)]

\* a section was renamed and the index of the document kept its entries
SectionEntryKept(after, oldname, newname) ==
    NoOtherEntry(cfg.sections, xform(cfg.sectionxform, oldname),
                 xform(cfg.sectionxform, newname))
        => EntryKept(cfg.sections, after.sections,
                     xform(cfg.sectionxform, oldname),
                     xform(cfg.sectionxform, newname))

\* what a rename that succeeds does to the index
RenameStep ==
    \A after \in {cfg'} : \A call \in {last'} :
       (calls' = calls + 1 /\ call.error = "none")
          => /\ call.op = "rename_option"
                   => OptionEntryKept(after, call.section, call.name,
                                      call.data)
             /\ call.op = "rename_section"
                   => SectionEntryKept(after, call.section, call.data)

\* C29: renaming never loses an entry: when the new name is not that of
\* another entry, after rename(old, new) the index holds as many entries
\* as before and the renamed entry is found under the transformed new
\* name, also when old and new are equal or differ in letter case only.
C29_RenameKeepsEntries == [][RenameStep]_vars

\* ------------------------------------------------------------------------
\* Writing a document and reading it again
\* ------------------------------------------------------------------------

\* the option names of an index and the value of each
OptionsOf(c, index) ==
    [key \in DOMAIN index.options |-> option_get(c, index.options[key])]

\* the sections of a document, the option names of each and their values
Content(c) ==
    [defaults |-> OptionsOf(c, c.defaults),
     sections |-> [sec \in DOMAIN c.sections |->
                      OptionsOf(c, c.sections[sec])]]

\* the text of document c read into a fresh document
Reread(c) == inifile_read(inifile_str(c), c.parse_exc)

\* the text of document c is read without error and gives the sections,
\* option names and values of c
ReadsBack(c) ==
    /\ Reread(c).raised = NoError
    /\ Content(Reread(c).cfg) = Content(c)

\* C30: the text of a document to which options were assigned, values of
\* several lines and values with empty lines included, is read into a
\* fresh document without error and gives the same sections, the same
\* option names and the same option values.
C30_WriteThenRead ==
    (/\ pc = "done" /\ raised = NoError
     /\ calls > 0 => last.op = "assign_option" /\ last.error = "none")
        => ReadsBack(cfg)

=============================================================================
